---- MODULE Spec2Model ----
(***************************************************************************)
(* A model of the egui-graph-edit interaction reducer                      *)
(* (GraphEditorState::draw_graph_editor and GraphNodeWidget::show).        *)
(*                                                                         *)
(* One frame of draw_graph_editor is a run-to-completion sequence of       *)
(* steps: the draw pass (a Frame* action, which collects the node          *)
(* responses and draws the node finder and the connections), one step per  *)
(* iteration of the response loop (the Apply* actions), and the tail of    *)
(* the function (EndFrame).  `pc` is the position inside the function.     *)
(* A Rust panic is the terminal state panicked = TRUE.                     *)
(***************************************************************************)
EXTENDS Integers, Sequences, FiniteSets, TLC

\* ------------------------------------------------------------------ bounds
\* Node ids ever allocated by the graph's slot map (ids are never reused).
MaxNodes == 2
\* Length of the caller-supplied prepend_responses list.
MaxPrepend == 1

\* ------------------------------------------------------------------ ids
NodeIds == 1..MaxNodes
\* A port id carries its role: AnyParameterId::Input(id) / ::Output(id).
\* <<role, n, k>> is the k-th port of that role allocated for node n.
MaxPorts == 2
PortIds == {"Input", "Output"} \X NodeIds \X (1..MaxPorts)
NoPort == <<"None", 0, 0>>
IsInput(p) == p[1] = "Input"
IsOutput(p) == p[1] = "Output"

\* Option<T>: None is the empty tuple, Some(x) the one-element tuple.
None == <<>>
Some(x) == <<x>>
IsSome(o) == o # <<>>
Unwrap(o) == o[1]

\* ------------------------------------------------------------------ state
VARIABLES
    nodes,                  \* graph.nodes: live NodeId -> [inputs, outputs]
    inputs,                 \* graph.inputs: live InputId -> InputParam
    outputs,                \* graph.outputs: live OutputId -> OutputParam
    connections,            \* graph.connections: set of <<input, output>>
    next_node,              \* number of node ids allocated so far
    node_order,             \* GraphEditorState.node_order
    node_positions,         \* GraphEditorState.node_positions
    node_orientations,      \* GraphEditorState.node_orientations
    selected_nodes,         \* GraphEditorState.selected_nodes
    connection_in_progress, \* GraphEditorState.connection_in_progress
    ongoing_box_selection,  \* GraphEditorState.ongoing_box_selection
    node_finder,            \* GraphEditorState.node_finder
    pan,                    \* GraphEditorState.pan_zoom.pan
    pc,                     \* "idle" | "apply" | "returned"
    frame,                  \* the pointer / key input of the running frame
    delayed_responses,      \* local delayed_responses
    idx,                    \* responses consumed by the response loop
    extra_responses,        \* local extra_responses
    node_rects,             \* local node_rects: the rect each node was drawn at
    node_responses,         \* GraphResponse.node_responses of the last frame
    cursor_in_editor,       \* GraphResponse.cursor_in_editor
    cursor_in_finder,       \* GraphResponse.cursor_in_finder
    panicked,               \* a panic unwound the frame
    prev                    \* history: graph and editor state before the last step

graph_vars == <<nodes, inputs, outputs, connections, next_node>>
editor_vars == <<node_order, node_positions, node_orientations, selected_nodes,
                 connection_in_progress, ongoing_box_selection, node_finder, pan>>
frame_vars == <<pc, frame, delayed_responses, idx, extra_responses, node_rects,
                node_responses, cursor_in_editor, cursor_in_finder>>
vars == <<graph_vars, editor_vars, frame_vars, panicked, prev>>

\* ------------------------------------------------------------------ helpers
Range(s) == {s[i] : i \in 1..Len(s)}

\* Vec::retain(|id| *id != x)
RECURSIVE Retain(_, _)
Retain(s, x) ==
    IF s = <<>> THEN <<>>
    ELSE IF Head(s) = x THEN Retain(Tail(s), x)
    ELSE <<Head(s)>> \o Retain(Tail(s), x)

\* Restriction of a map to the keys outside `gone`.
Without(f, gone) == [k \in DOMAIN f \ gone |-> f[k]]

\* Storage order of port ids: by owning slot, then by port index.
PortLess(p, q) == p[2] < q[2] \/ (p[2] = q[2] /\ p[3] < q[3])
ConnLess(c, d) == PortLess(c[1], d[1])

\* The pairs of a connection set in storage order (keyed by the input).
RECURSIVE ConnSeq(_)
ConnSeq(cs) ==
    IF cs = {} THEN <<>>
    ELSE LET c == CHOOSE c \in cs : \A d \in cs : d = c \/ ~ConnLess(d, c)
         IN <<c>> \o ConnSeq(cs \ {c})

\* ------------------------------------------------------------------ graph store
\* The Graph value held by the editor state.
Graph == [nodes |-> nodes, inputs |-> inputs, outputs |-> outputs,
          connections |-> connections, next_node |-> next_node]

\* The graph and editor state, as one value (what `prev` records).
Snapshot ==
    [graph |-> Graph,
     node_order |-> node_order,
     node_positions |-> node_positions,
     node_orientations |-> node_orientations,
     selected_nodes |-> selected_nodes,
     connection_in_progress |-> connection_in_progress,
     ongoing_box_selection |-> ongoing_box_selection,
     node_finder |-> node_finder,
     pan |-> pan,
     extra_responses |-> extra_responses]

SetGraph(g) ==
    /\ nodes' = g.nodes
    /\ inputs' = g.inputs
    /\ outputs' = g.outputs
    /\ connections' = g.connections
    /\ next_node' = g.next_node

\* A node template: what build_node appends to a fresh node.
InputParam(typ, kind, shown) == [typ |-> typ, kind |-> kind, shown_inline |-> shown]
Template(kind) ==
    CASE kind = "Node" ->
            [inputs |-> <<InputParam("edge", "ConnectionOnly", TRUE),
                          InputParam("edge", "ConnectionOnly", TRUE)>>,
             outputs |-> <<"edge">>, user_data |-> kind]
      [] kind = "Unary" ->
            [inputs |-> <<InputParam("edge", "ConnectionOnly", TRUE)>>,
             outputs |-> <<"edge">>, user_data |-> kind]
      [] kind = "Typed" ->
            [inputs |-> <<InputParam("other", "ConnectionOnly", TRUE)>>,
             outputs |-> <<"other">>, user_data |-> kind]
      \* a payload whose can_delete() is always false
      [] kind = "Pinned" ->
            [inputs |-> <<InputParam("edge", "ConnectionOnly", TRUE)>>,
             outputs |-> <<"edge">>, user_data |-> kind]
      \* the first input is not shown inline
      [] kind = "Hidden" ->
            [inputs |-> <<InputParam("edge", "ConnectionOrConstant", FALSE),
                          InputParam("edge", "ConnectionOnly", TRUE)>>,
             outputs |-> <<"edge">>, user_data |-> kind]
      \* the first input takes a constant only
      [] kind = "Const" ->
            [inputs |-> <<InputParam("edge", "ConstantOnly", TRUE),
                          InputParam("edge", "ConnectionOnly", TRUE)>>,
             outputs |-> <<"edge">>, user_data |-> kind]

\* Graph::add_node followed by the builder's add_input_param/add_output_param
\* calls: a fresh id, ports appended in template order, each linked to the node.
add_node(g, tpl) ==
    LET id == g.next_node + 1
        ins == [k \in 1..Len(tpl.inputs) |-> <<"Input", id, k>>]
        outs == [k \in 1..Len(tpl.outputs) |-> <<"Output", id, k>>]
    IN [nodes |-> g.nodes @@ (id :> [inputs |-> ins, outputs |-> outs,
                                     user_data |-> tpl.user_data]),
        inputs |-> g.inputs @@
            [p \in Range(ins) |->
                [node |-> id, typ |-> tpl.inputs[p[3]].typ,
                 kind |-> tpl.inputs[p[3]].kind,
                 shown_inline |-> tpl.inputs[p[3]].shown_inline]],
        outputs |-> g.outputs @@
            [p \in Range(outs) |-> [node |-> id, typ |-> tpl.outputs[p[3]]]],
        connections |-> g.connections,
        next_node |-> id]

\* Graph::add_connection: last write wins on the input, no type check.
add_connection(g, output, input) ==
    [g EXCEPT !.connections =
        {c \in g.connections : c[1] # input} \cup {<<input, output>>}]

\* Graph::remove_connection: a no-op when the input has no connection.
remove_connection(g, input) ==
    [g EXCEPT !.connections = {c \in g.connections : c[1] # input}]

\* Graph::connection: the output feeding `input`, if any.
connection(g, input) ==
    IF \E c \in g.connections : c[1] = input
    THEN Some((CHOOSE c \in g.connections : c[1] = input)[2])
    ELSE None

\* Graph::iter_connections, in storage order.
iter_connections(g) == ConnSeq(g.connections)

\* Graph::any_param_type: None stands for the StaleIdentifier error.
any_param_type(g, p) ==
    IF IsInput(p) /\ p \in DOMAIN g.inputs THEN Some(g.inputs[p].typ)
    ELSE IF IsOutput(p) /\ p \in DOMAIN g.outputs THEN Some(g.outputs[p].typ)
    ELSE None

\* Owner of a port id; the lookup of a stale id panics (see PortIsLive).
PortIsLive(g, p) == p \in DOMAIN g.inputs \/ p \in DOMAIN g.outputs
PortNode(g, p) == IF IsInput(p) THEN g.inputs[p].node ELSE g.outputs[p].node

\* Connections severed by remove_node(node_id): those that reference one of the
\* node's ports in either role.
Severed(g, node_id) ==
    {c \in g.connections :
        \/ c[1] \in Range(g.nodes[node_id].inputs)
        \/ c[2] \in Range(g.nodes[node_id].outputs)}

\* Graph::remove_node: the graph without the node, its ports and the severed
\* connections, plus the severed (input, output) pairs.
remove_node(g, node_id) ==
    LET gone == Severed(g, node_id)
    IN [graph |->
            [nodes |-> Without(g.nodes, {node_id}),
             inputs |-> Without(g.inputs, Range(g.nodes[node_id].inputs)),
             outputs |-> Without(g.outputs, Range(g.nodes[node_id].outputs)),
             connections |-> g.connections \ gone,
             next_node |-> g.next_node],
        disc_events |-> ConnSeq(gone)]

\* ------------------------------------------------------------------ responses
\* NodeResponse, as a record of one shape; unused fields hold 0 / NoPort.
Resp(type, node, input, output, port) ==
    [type |-> type, node |-> node, input |-> input, output |-> output,
     port |-> port, drag_delta |-> 0]
ConnectEventStarted(node, port) == Resp("ConnectEventStarted", node, NoPort, NoPort, port)
ConnectEventEnded(input, output) == Resp("ConnectEventEnded", 0, input, output, NoPort)
CreatedNode(node) == Resp("CreatedNode", node, NoPort, NoPort, NoPort)
SelectNode(node) == Resp("SelectNode", node, NoPort, NoPort, NoPort)
DeleteNodeUi(node) == Resp("DeleteNodeUi", node, NoPort, NoPort, NoPort)
DeleteNodeFull(node) == Resp("DeleteNodeFull", node, NoPort, NoPort, NoPort)
DisconnectEvent(input, output) == Resp("DisconnectEvent", 0, input, output, NoPort)
RaiseNode(node) == Resp("RaiseNode", node, NoPort, NoPort, NoPort)
MoveNode(node, delta) ==
    [Resp("MoveNode", node, NoPort, NoPort, NoPort) EXCEPT !.drag_delta = delta]
\* User(payload): the payload is opaque to the editor.  A node's hooks are
\* handed the node id, which stands for the payload they build.
UserOf(payload) == Resp("User", payload, NoPort, NoPort, NoPort)
User == UserOf(0)

\* ------------------------------------------------------------------ frame input
\* What the render surface reports during one frame: pointer and key state,
\* the widget responses of egui, and the caller's prepend_responses.
NoInput ==
    [prepend |-> <<>>,
     drag_started |-> NoPort,       \* the port whose widget reports drag_started()
     close_enough |-> {},           \* ports within DISTANCE_TO_CONNECT of the pointer
     window_drag |-> 0,             \* node whose window reports a drag_delta
     drag_delta |-> 0,
     window_click |-> 0,            \* node whose window was clicked_by(Primary)
     close_click |-> 0,             \* node whose close button was clicked
     flip_click |-> 0,              \* node whose flip button was clicked
     vetoed |-> {},                 \* nodes whose can_delete() is false
     user |-> {},                   \* nodes whose payload hooks emit a User response
     confirm |-> "",                \* kind confirmed in the node finder
     any_released |-> FALSE,
     primary_released |-> FALSE,
     secondary_released |-> FALSE,
     any_pressed |-> FALSE,
     primary_down |-> FALSE,
     escape |-> FALSE,
     bg_drag_started |-> FALSE,     \* r.drag_started()
     bg_drag_stopped |-> FALSE,     \* r.drag_stopped()
     bg_dragged_middle |-> FALSE,   \* r.dragged() && middle_down()
     in_editor_rect |-> TRUE,       \* resp.rect.contains(cursor_pos)
     in_finder_rect |-> FALSE,      \* finder_rect.contains(cursor_pos)
     cursor_pos |-> 0]

\* ------------------------------------------------------------------ geometry
\* Points and vectors are integers (one axis); a Rect is [min, max].
\* Extent of a node's window along that axis.
NodeExtent == 1

\* Rect::from_two_pos
from_two_pos(a, b) == [min |-> IF a <= b THEN a ELSE b, max |-> IF a <= b THEN b ELSE a]

\* Rect::intersects
intersects(r, s) == r.min <= s.max /\ s.min <= r.max

\* The orders in which a hash map can hand out the keys in S.
Orders(S) == {q \in [1..Cardinality(S) -> S] : \A x \in S : \E k \in DOMAIN q : q[k] = x}

\* ------------------------------------------------------------------ per-node UI
\* Input ports that get a height in the first pass: one height is pushed per
\* shown-inline input, and the second pass zips the input list with them.
InlineCount(g, n) ==
    Cardinality({k \in 1..Len(g.nodes[n].inputs) :
                    g.inputs[g.nodes[n].inputs[k]].shown_inline})

\* Mutant of should_draw: a ConstantOnly input gets a port as well.
should_draw_Always(g, p) == TRUE

\* Whether the second pass draws a port for the input p.
should_draw(g, p) == g.inputs[p].kind # "ConstantOnly"

\* The input ports for which draw_port runs, in order.
DrawnInputs(g, n) ==
    SelectSeq(g.nodes[n].inputs,
              LAMBDA p : p[3] <= InlineCount(g, n) /\ should_draw(g, p))

DrawnPortsOf(g, n) == Range(DrawnInputs(g, n)) \cup Range(g.nodes[n].outputs)

\* Mutant of draw_port: a drag started on a connected input starts a new
\* connection instead of unplugging the existing one.
draw_port_NoUnplug(g, node_id, param_id, inp, ongoing_drag, is_connected_input) ==
    LET started ==
            IF inp.drag_started = param_id /\ ~IsSome(ongoing_drag)
            THEN <<ConnectEventStarted(node_id, param_id)>>
            ELSE <<>>
        ended ==
            IF IsSome(ongoing_drag) /\ ongoing_drag[1] # node_id
               /\ any_param_type(g, ongoing_drag[2]) = any_param_type(g, param_id)
               /\ param_id \in inp.close_enough
               /\ inp.any_released
            THEN IF IsInput(param_id) /\ IsOutput(ongoing_drag[2])
                 THEN <<ConnectEventEnded(param_id, ongoing_drag[2])>>
                 ELSE IF IsOutput(param_id) /\ IsInput(ongoing_drag[2])
                 THEN <<ConnectEventEnded(ongoing_drag[2], param_id)>>
                 ELSE <<>>
            ELSE <<>>
    IN started \o ended

\* Mutant of draw_port: a port of the drag's origin node accepts the release.
draw_port_SelfLoops(g, node_id, param_id, inp, ongoing_drag, is_connected_input) ==
    LET started ==
            IF inp.drag_started = param_id /\ ~IsSome(ongoing_drag)
            THEN IF is_connected_input
                 THEN <<DisconnectEvent(param_id, Unwrap(connection(g, param_id)))>>
                 ELSE <<ConnectEventStarted(node_id, param_id)>>
            ELSE <<>>
        ended ==
            IF IsSome(ongoing_drag)
               /\ any_param_type(g, ongoing_drag[2]) = any_param_type(g, param_id)
               /\ param_id \in inp.close_enough
               /\ inp.any_released
            THEN IF IsInput(param_id) /\ IsOutput(ongoing_drag[2])
                 THEN <<ConnectEventEnded(param_id, ongoing_drag[2])>>
                 ELSE IF IsOutput(param_id) /\ IsInput(ongoing_drag[2])
                 THEN <<ConnectEventEnded(ongoing_drag[2], param_id)>>
                 ELSE <<>>
            ELSE <<>>
    IN started \o ended

\* Mutant of draw_port: the declared types of the two ports are not compared.
draw_port_NoTypeCheck(g, node_id, param_id, inp, ongoing_drag, is_connected_input) ==
    LET started ==
            IF inp.drag_started = param_id /\ ~IsSome(ongoing_drag)
            THEN IF is_connected_input
                 THEN <<DisconnectEvent(param_id, Unwrap(connection(g, param_id)))>>
                 ELSE <<ConnectEventStarted(node_id, param_id)>>
            ELSE <<>>
        ended ==
            IF IsSome(ongoing_drag) /\ ongoing_drag[1] # node_id
               /\ param_id \in inp.close_enough
               /\ inp.any_released
            THEN IF IsInput(param_id) /\ IsOutput(ongoing_drag[2])
                 THEN <<ConnectEventEnded(param_id, ongoing_drag[2])>>
                 ELSE IF IsOutput(param_id) /\ IsInput(ongoing_drag[2])
                 THEN <<ConnectEventEnded(ongoing_drag[2], param_id)>>
                 ELSE <<>>
            ELSE <<>>
    IN started \o ended

\* draw_port: the responses one port pushes.
\* Mutant of draw_port: the port senses clicks and drags during a connection
\* drag as well.
draw_port_AlwaysSensesDrag(g, node_id, param_id, inp, ongoing_drag, is_connected_input) ==
    LET started ==
            IF inp.drag_started = param_id
            THEN IF is_connected_input
                 THEN <<DisconnectEvent(param_id, Unwrap(connection(g, param_id)))>>
                 ELSE <<ConnectEventStarted(node_id, param_id)>>
            ELSE <<>>
        ended ==
            IF IsSome(ongoing_drag) /\ ongoing_drag[1] # node_id
               /\ any_param_type(g, ongoing_drag[2]) = any_param_type(g, param_id)
               /\ param_id \in inp.close_enough
               /\ inp.any_released
            THEN IF IsInput(param_id) /\ IsOutput(ongoing_drag[2])
                 THEN <<ConnectEventEnded(param_id, ongoing_drag[2])>>
                 ELSE IF IsOutput(param_id) /\ IsInput(ongoing_drag[2])
                 THEN <<ConnectEventEnded(ongoing_drag[2], param_id)>>
                 ELSE <<>>
            ELSE <<>>
    IN started \o ended

draw_port(g, node_id, param_id, inp, ongoing_drag, is_connected_input) ==
    LET started ==
            IF inp.drag_started = param_id /\ ~IsSome(ongoing_drag)
            THEN IF is_connected_input
                 THEN <<DisconnectEvent(param_id, Unwrap(connection(g, param_id)))>>
                 ELSE <<ConnectEventStarted(node_id, param_id)>>
            ELSE <<>>
        ended ==
            IF IsSome(ongoing_drag) /\ ongoing_drag[1] # node_id
               /\ any_param_type(g, ongoing_drag[2]) = any_param_type(g, param_id)
               /\ param_id \in inp.close_enough
               /\ inp.any_released
            THEN IF IsInput(param_id) /\ IsOutput(ongoing_drag[2])
                 THEN <<ConnectEventEnded(param_id, ongoing_drag[2])>>
                 ELSE IF IsOutput(param_id) /\ IsInput(ongoing_drag[2])
                 THEN <<ConnectEventEnded(ongoing_drag[2], param_id)>>
                 ELSE <<>>
            ELSE <<>>
    IN started \o ended

RECURSIVE draw_ports(_, _, _, _, _)
draw_ports(g, node_id, ports, inp, ongoing_drag) ==
    IF ports = <<>> THEN <<>>
    ELSE draw_port(g, node_id, Head(ports), inp, ongoing_drag,
                   IsInput(Head(ports)) /\ IsSome(connection(g, Head(ports))))
         \o draw_ports(g, node_id, Tail(ports), inp, ongoing_drag)

\* draw_port unwraps the type of the drag's origin port for every port of a
\* node other than the origin node.
NodeDrawPanics(g, node_id, ongoing_drag) ==
    /\ IsSome(ongoing_drag)
    /\ ongoing_drag[1] # node_id
    /\ DrawnPortsOf(g, node_id) # {}
    /\ ~PortIsLive(g, ongoing_drag[2])

\* NodeDataTrait::can_delete: the payload's answer in this frame.  A Pinned
\* payload always refuses; other payloads refuse in the frames that say so.
can_delete(g, node_id, inp) ==
    g.nodes[node_id].user_data # "Pinned" /\ node_id \notin inp.vetoed

\* Mutant of show_graph_node: the close button is there whatever can_delete says.
show_graph_node_AlwaysCloses(g, node_id, inp, ongoing_drag) ==
    LET hooks == IF node_id \in inp.user THEN <<UserOf(node_id)>> ELSE <<>>
        ports == draw_ports(g, node_id,
                            DrawnInputs(g, node_id) \o g.nodes[node_id].outputs,
                            inp, ongoing_drag)
        close == IF inp.close_click = node_id
                 THEN <<DeleteNodeUi(node_id)>> ELSE <<>>
        move == IF inp.window_drag = node_id /\ inp.drag_delta # 0
                THEN <<MoveNode(node_id, inp.drag_delta), RaiseNode(node_id)>>
                ELSE <<>>
        responses == hooks \o ports \o close \o move
    IN IF responses = <<>> /\ inp.window_click = node_id
       THEN <<SelectNode(node_id), RaiseNode(node_id)>>
       ELSE responses

\* Mutant of show_graph_node: a click selects the node whatever else the pass
\* has pushed.
show_graph_node_AlwaysSelects(g, node_id, inp, ongoing_drag) ==
    LET hooks == IF node_id \in inp.user THEN <<UserOf(node_id)>> ELSE <<>>
        ports == draw_ports(g, node_id,
                            DrawnInputs(g, node_id) \o g.nodes[node_id].outputs,
                            inp, ongoing_drag)
        close == IF can_delete(g, node_id, inp) /\ inp.close_click = node_id
                 THEN <<DeleteNodeUi(node_id)>> ELSE <<>>
        move == IF inp.window_drag = node_id /\ inp.drag_delta # 0
                THEN <<MoveNode(node_id, inp.drag_delta), RaiseNode(node_id)>>
                ELSE <<>>
        responses == hooks \o ports \o close \o move
    IN IF inp.window_click = node_id
       THEN responses \o <<SelectNode(node_id), RaiseNode(node_id)>>
       ELSE responses

\* show_graph_node: the responses of one node, in the order they are pushed.
show_graph_node(g, node_id, inp, ongoing_drag) ==
    LET hooks == IF node_id \in inp.user THEN <<UserOf(node_id)>> ELSE <<>>
        ports == draw_ports(g, node_id,
                            DrawnInputs(g, node_id) \o g.nodes[node_id].outputs,
                            inp, ongoing_drag)
        close == IF can_delete(g, node_id, inp) /\ inp.close_click = node_id
                 THEN <<DeleteNodeUi(node_id)>> ELSE <<>>
        move == IF inp.window_drag = node_id /\ inp.drag_delta # 0
                THEN <<MoveNode(node_id, inp.drag_delta), RaiseNode(node_id)>>
                ELSE <<>>
        responses == hooks \o ports \o close \o move
    IN IF responses = <<>> /\ inp.window_click = node_id
       THEN <<SelectNode(node_id), RaiseNode(node_id)>>
       ELSE responses

\* Mutant of draw_nodes: the responses of the topmost node come first.
RECURSIVE draw_nodes_Reversed(_, _, _, _)
draw_nodes_Reversed(g, order, inp, ongoing_drag) ==
    IF order = <<>> THEN <<>>
    ELSE draw_nodes_Reversed(g, Tail(order), inp, ongoing_drag)
         \o show_graph_node(g, Head(order), inp, ongoing_drag)

\* The draw loop over node_order: all node responses, concatenated.
RECURSIVE draw_nodes(_, _, _, _)
draw_nodes(g, order, inp, ongoing_drag) ==
    IF order = <<>> THEN <<>>
    ELSE show_graph_node(g, Head(order), inp, ongoing_drag)
         \o draw_nodes(g, Tail(order), inp, ongoing_drag)

\* port_locations after the draw loop: the ports draw_port ran for.
PortLocations(g, order) ==
    UNION {DrawnPortsOf(g, n) : n \in Range(order) \cap DOMAIN g.nodes}

\* snap_to_ports: the first port of the scanned slot map, in storage order,
\* whose type is the source's, whose location was recorded by the draw loop
\* and which is within the connect distance of the pointer (`near`).  None
\* stands for the fallback, the raw pointer position.
snap_to_ports(g, port_type, ports, port_locations, near) ==
    LET hits == {p \in ports : /\ any_param_type(g, p) = Some(port_type)
                               /\ p \in port_locations
                               /\ p \in near}
    IN IF hits = {} THEN None
       ELSE Some(CHOOSE p \in hits : \A q \in hits \ {p} : PortLess(p, q))

\* Where the wire of the ongoing drag ends: the inputs are scanned for a drag
\* from an output, the outputs for a drag from an input.
DragTarget(g, locator, port_locations, near) ==
    snap_to_ports(g, Unwrap(any_param_type(g, locator)),
                  IF IsOutput(locator) THEN DOMAIN g.inputs ELSE DOMAIN g.outputs,
                  port_locations, near)

\* ------------------------------------------------------------------ draw pass
Flip(o) == IF o = "LeftToRight" THEN "RightToLeft" ELSE "LeftToRight"

\* The lookups of the draw pass that panic: the debug assertion on
\* node_order, the position / orientation of every node drawn, the origin
\* port of an ongoing drag, and the port locations of every connection.
DrawPanics ==
    LET locs == PortLocations(Graph, node_order)
    IN \/ Range(node_order) # DOMAIN nodes
       \/ \E n \in Range(node_order) :
             \/ n \notin DOMAIN node_positions
             \/ n \notin DOMAIN node_orientations
             \/ NodeDrawPanics(Graph, n, connection_in_progress)
       \/ IsSome(connection_in_progress) /\ connection_in_progress[2] \notin locs
       \/ \E c \in connections : c[1] \notin locs \/ c[2] \notin locs

Panic ==
    /\ panicked' = TRUE
    /\ UNCHANGED <<graph_vars, editor_vars, frame_vars, prev>>

\* Mutant of node_order_push: the new node goes below every other node.
node_order_push_Front(order, n) == <<n>> \o order

\* Where the node finder puts the node it created in the draw order.
node_order_push(order, n) == Append(order, n)

\* cursor_in_finder: set inside the finder's block, which runs only while the
\* finder is open.
CursorInFinder(inp) == IsSome(node_finder) /\ inp.in_finder_rect

\* Mutant of CursorInEditor: only the editor rectangle counts.
CursorInEditor_RectOnly(inp) == inp.in_editor_rect

\* cursor_in_editor: the editor rectangle holds the cursor, or the finder does.
CursorInEditor(inp) == inp.in_editor_rect \/ CursorInFinder(inp)

\* draw_graph_editor up to the response loop, for the frame input `inp`.
DrawPass(inp) ==
    /\ pc = "idle"
    /\ ~panicked
    /\ IF DrawPanics THEN Panic
       ELSE
        LET created == IsSome(node_finder) /\ inp.confirm # ""
            g1 == IF created THEN add_node(Graph, Template(inp.confirm)) ELSE Graph
            new_node == g1.next_node
            flipped == [n \in DOMAIN node_orientations |->
                          IF n = inp.flip_click /\ n \in Range(node_order)
                          THEN Flip(node_orientations[n])
                          ELSE node_orientations[n]]
        IN /\ SetGraph(g1)
           /\ node_positions' =
                IF created THEN node_positions @@ (new_node :> (inp.cursor_pos - pan))
                ELSE node_positions
           /\ node_orientations' =
                IF created THEN flipped @@ (new_node :> "LeftToRight") ELSE flipped
           /\ node_order' = IF created THEN node_order_push(node_order, new_node)
                              ELSE node_order
           /\ node_finder' = IF created THEN None ELSE node_finder
           /\ delayed_responses' =
                inp.prepend
                \o draw_nodes(Graph, node_order, inp, connection_in_progress)
                \o (IF created THEN <<CreatedNode(new_node)>> ELSE <<>>)
           /\ cursor_in_finder' = CursorInFinder(inp)
           /\ cursor_in_editor' = CursorInEditor(inp)
           /\ frame' = inp
           /\ node_rects' =
                [n \in Range(node_order) |->
                    [min |-> node_positions[n] + pan,
                     max |-> node_positions[n] + pan + NodeExtent]]
           /\ idx' = 0
           /\ extra_responses' = <<>>
           /\ node_responses' = <<>>
           /\ pc' = "apply"
           /\ prev' = Snapshot
           /\ UNCHANGED <<selected_nodes, connection_in_progress,
                          ongoing_box_selection, pan, panicked>>

\* ------------------------------------------------------------------ response loop
InLoop == pc = "apply" /\ ~panicked /\ idx < Len(delayed_responses)
response == delayed_responses[idx + 1]

\* The loop moves on to the next response.
Advance ==
    /\ idx' = idx + 1
    /\ prev' = Snapshot
    /\ UNCHANGED <<pc, frame, delayed_responses, node_rects, node_responses,
                   cursor_in_editor, cursor_in_finder, panicked>>

ApplyConnectEventStarted ==
    /\ InLoop /\ response.type = "ConnectEventStarted"
    /\ connection_in_progress' = <<response.node, response.port>>
    /\ Advance
    /\ UNCHANGED <<graph_vars, node_order, node_positions, node_orientations,
                   selected_nodes, ongoing_box_selection, node_finder, pan,
                   extra_responses>>

\* Mutant of ConnectEventEndedGraph: the link is added beside the input's
\* existing one instead of replacing it.
ConnectEventEndedGraph_Adds(g, r) ==
    [g EXCEPT !.connections = @ \cup {<<r.input, r.output>>}]

\* What the ConnectEventEnded arm does to the graph.
ConnectEventEndedGraph(g, r) == add_connection(g, r.output, r.input)

\* Mutant of ApplyConnectEventEnded: the replaced link is reported with a
\* DisconnectEvent.
ApplyConnectEventEnded_Announces ==
    /\ InLoop /\ response.type = "ConnectEventEnded"
    /\ SetGraph(ConnectEventEndedGraph(Graph, response))
    /\ extra_responses' =
        IF IsSome(connection(Graph, response.input))
        THEN Append(extra_responses,
                    DisconnectEvent(response.input,
                                    Unwrap(connection(Graph, response.input))))
        ELSE extra_responses
    /\ Advance
    /\ UNCHANGED editor_vars

ApplyConnectEventEnded ==
    /\ InLoop /\ response.type = "ConnectEventEnded"
    /\ SetGraph(ConnectEventEndedGraph(Graph, response))
    /\ Advance
    /\ UNCHANGED <<editor_vars, extra_responses>>

ApplyCreatedNode ==
    /\ InLoop /\ response.type = "CreatedNode"
    /\ Advance
    /\ UNCHANGED <<graph_vars, editor_vars, extra_responses>>

ApplySelectNode ==
    /\ InLoop /\ response.type = "SelectNode"
    /\ selected_nodes' = <<response.node>>
    /\ Advance
    /\ UNCHANGED <<graph_vars, node_order, node_positions, node_orientations,
                   connection_in_progress, ongoing_box_selection, node_finder, pan,
                   extra_responses>>

\* disc_events mapped to DisconnectEvent responses.
DisconnectEvents(pairs) == [k \in 1..Len(pairs) |-> DisconnectEvent(pairs[k][1], pairs[k][2])]

\* Mutant of ApplyDeleteNodeUi: node_order.retain is missing.
ApplyDeleteNodeUi_KeepsOrder ==
    /\ InLoop /\ response.type = "DeleteNodeUi"
    /\ IF response.node \notin DOMAIN nodes THEN Panic
       ELSE
        LET removed == remove_node(Graph, response.node)
        IN /\ SetGraph(removed.graph)
           /\ extra_responses' =
                extra_responses \o DisconnectEvents(removed.disc_events)
                \o <<DeleteNodeFull(response.node)>>
           /\ node_positions' = Without(node_positions, {response.node})
           /\ selected_nodes' = Retain(selected_nodes, response.node)
           /\ Advance
           /\ UNCHANGED <<node_order, node_orientations, connection_in_progress,
                          ongoing_box_selection, node_finder, pan>>

\* Mutant of ApplyDeleteNodeUi: DeleteNodeFull is pushed before the
\* disconnection responses.
ApplyDeleteNodeUi_FullFirst ==
    /\ InLoop /\ response.type = "DeleteNodeUi"
    /\ IF response.node \notin DOMAIN nodes THEN Panic
       ELSE
        LET removed == remove_node(Graph, response.node)
        IN /\ SetGraph(removed.graph)
           /\ extra_responses' =
                extra_responses \o <<DeleteNodeFull(response.node)>>
                \o DisconnectEvents(removed.disc_events)
           /\ node_positions' = Without(node_positions, {response.node})
           /\ selected_nodes' = Retain(selected_nodes, response.node)
           /\ node_order' = Retain(node_order, response.node)
           /\ Advance
           /\ UNCHANGED <<node_orientations, connection_in_progress,
                          ongoing_box_selection, node_finder, pan>>

\* Mutant of ApplyDeleteNodeUi: only the links into the node's inputs are
\* severed; links out of its outputs stay in the graph.
ApplyDeleteNodeUi_InputsOnly ==
    /\ InLoop /\ response.type = "DeleteNodeUi"
    /\ IF response.node \notin DOMAIN nodes THEN Panic
       ELSE
        LET removed == remove_node(Graph, response.node)
            incoming == {c \in connections : c[1] \in Range(nodes[response.node].inputs)}
        IN /\ SetGraph([removed.graph EXCEPT !.connections = connections \ incoming])
           /\ extra_responses' =
                extra_responses \o DisconnectEvents(ConnSeq(incoming))
                \o <<DeleteNodeFull(response.node)>>
           /\ node_positions' = Without(node_positions, {response.node})
           /\ selected_nodes' = Retain(selected_nodes, response.node)
           /\ node_order' = Retain(node_order, response.node)
           /\ Advance
           /\ UNCHANGED <<node_orientations, connection_in_progress,
                          ongoing_box_selection, node_finder, pan>>

\* Mutant of ApplyDeleteNodeUi: the whole selection is dropped.
ApplyDeleteNodeUi_ClearsSelection ==
    /\ InLoop /\ response.type = "DeleteNodeUi"
    /\ IF response.node \notin DOMAIN nodes THEN Panic
       ELSE
        LET removed == remove_node(Graph, response.node)
        IN /\ SetGraph(removed.graph)
           /\ extra_responses' =
                extra_responses \o DisconnectEvents(removed.disc_events)
                \o <<DeleteNodeFull(response.node)>>
           /\ node_positions' = Without(node_positions, {response.node})
           /\ selected_nodes' = <<>>
           /\ node_order' = Retain(node_order, response.node)
           /\ Advance
           /\ UNCHANGED <<node_orientations, connection_in_progress,
                          ongoing_box_selection, node_finder, pan>>

ApplyDeleteNodeUi ==
    /\ InLoop /\ response.type = "DeleteNodeUi"
    /\ IF response.node \notin DOMAIN nodes THEN Panic
       ELSE
        LET removed == remove_node(Graph, response.node)
        IN /\ SetGraph(removed.graph)
           /\ extra_responses' =
                extra_responses \o DisconnectEvents(removed.disc_events)
                \o <<DeleteNodeFull(response.node)>>
           /\ node_positions' = Without(node_positions, {response.node})
           /\ selected_nodes' = Retain(selected_nodes, response.node)
           /\ node_order' = Retain(node_order, response.node)
           /\ Advance
           /\ UNCHANGED <<node_orientations, connection_in_progress,
                          ongoing_box_selection, node_finder, pan>>

\* Mutant of DisconnectEventGraph: the arm re-arms the drag but leaves the
\* connection in place.
DisconnectEventGraph_Keeps(g, r) == g

\* What the DisconnectEvent arm does to the graph.
DisconnectEventGraph(g, r) == remove_connection(g, r.input)

\* Mutant of ApplyDisconnectEvent: the connection is removed but the drag is
\* not re-armed from the freed output.
ApplyDisconnectEvent_NoRearm ==
    /\ InLoop /\ response.type = "DisconnectEvent"
    /\ IF response.output \notin DOMAIN outputs THEN Panic
       ELSE
        /\ SetGraph(DisconnectEventGraph(Graph, response))
        /\ Advance
        /\ UNCHANGED <<editor_vars, extra_responses>>

\* Mutant of ApplyDisconnectEvent: the drag goes on from the unplugged input
\* instead of the freed output.
ApplyDisconnectEvent_FromInput ==
    /\ InLoop /\ response.type = "DisconnectEvent"
    /\ IF response.output \notin DOMAIN outputs THEN Panic
       ELSE
        /\ SetGraph(DisconnectEventGraph(Graph, response))
        /\ connection_in_progress' = <<inputs[response.input].node, response.input>>
        /\ Advance
        /\ UNCHANGED <<node_order, node_positions, node_orientations, selected_nodes,
                       ongoing_box_selection, node_finder, pan, extra_responses>>

ApplyDisconnectEvent ==
    /\ InLoop /\ response.type = "DisconnectEvent"
    /\ IF response.output \notin DOMAIN outputs THEN Panic
       ELSE
        /\ SetGraph(DisconnectEventGraph(Graph, response))
        /\ connection_in_progress' = <<outputs[response.output].node, response.output>>
        /\ Advance
        /\ UNCHANGED <<node_order, node_positions, node_orientations, selected_nodes,
                       ongoing_box_selection, node_finder, pan, extra_responses>>

\* Vec::remove at the first position of x, then push(x).
RECURSIVE RemoveFirst(_, _)
RemoveFirst(s, x) ==
    IF s = <<>> THEN <<>>
    ELSE IF Head(s) = x THEN Tail(s)
    ELSE <<Head(s)>> \o RemoveFirst(Tail(s), x)

\* Mutant of ApplyRaiseNode: the node changes places with the topmost node.
ApplyRaiseNode_Swap ==
    /\ InLoop /\ response.type = "RaiseNode"
    /\ IF response.node \notin Range(node_order) THEN Panic
       ELSE
        /\ node_order' =
            [k \in 1..Len(node_order) |->
                IF node_order[k] = response.node THEN node_order[Len(node_order)]
                ELSE IF k = Len(node_order) THEN response.node
                ELSE node_order[k]]
        /\ Advance
        /\ UNCHANGED <<graph_vars, node_positions, node_orientations, selected_nodes,
                       connection_in_progress, ongoing_box_selection, node_finder, pan,
                       extra_responses>>

\* Mutant of ApplyRaiseNode: an id that is not in node_order is skipped.
ApplyRaiseNode_Ignores ==
    /\ InLoop /\ response.type = "RaiseNode"
    /\ node_order' =
        IF response.node \in Range(node_order)
        THEN Append(RemoveFirst(node_order, response.node), response.node)
        ELSE node_order
    /\ Advance
    /\ UNCHANGED <<graph_vars, node_positions, node_orientations, selected_nodes,
                   connection_in_progress, ongoing_box_selection, node_finder, pan,
                   extra_responses>>

ApplyRaiseNode ==
    /\ InLoop /\ response.type = "RaiseNode"
    /\ IF response.node \notin Range(node_order) THEN Panic
       ELSE
        /\ node_order' = Append(RemoveFirst(node_order, response.node), response.node)
        /\ Advance
        /\ UNCHANGED <<graph_vars, node_positions, node_orientations, selected_nodes,
                       connection_in_progress, ongoing_box_selection, node_finder, pan,
                       extra_responses>>

\* The nodes a MoveNode shifts: the node itself and, when it is part of a
\* selection of more than one node, the other selected nodes.
Moved(node) ==
    IF node \in Range(selected_nodes) /\ Len(selected_nodes) > 1
    THEN {node} \cup Range(selected_nodes)
    ELSE {node}

\* How many times the group loop visits n (selected_nodes is a Vec).
Visits(node, n) ==
    IF n = node THEN 1
    ELSE IF node \in Range(selected_nodes) /\ Len(selected_nodes) > 1
    THEN Cardinality({k \in 1..Len(selected_nodes) : selected_nodes[k] = n})
    ELSE 0

\* Mutant of ApplyMoveNode: the other selected nodes stay where they are.
ApplyMoveNode_OnlySelf ==
    /\ InLoop /\ response.type = "MoveNode"
    /\ IF ~(Moved(response.node) \subseteq DOMAIN node_positions) THEN Panic
       ELSE
        /\ node_positions' =
            [node_positions EXCEPT ![response.node] = @ + response.drag_delta]
        /\ Advance
        /\ UNCHANGED <<graph_vars, node_order, node_orientations, selected_nodes,
                       connection_in_progress, ongoing_box_selection, node_finder, pan,
                       extra_responses>>

ApplyMoveNode ==
    /\ InLoop /\ response.type = "MoveNode"
    /\ IF ~(Moved(response.node) \subseteq DOMAIN node_positions) THEN Panic
       ELSE
        /\ node_positions' =
            [n \in DOMAIN node_positions |->
                node_positions[n] + Visits(response.node, n) * response.drag_delta]
        /\ Advance
        /\ UNCHANGED <<graph_vars, node_order, node_orientations, selected_nodes,
                       connection_in_progress, ongoing_box_selection, node_finder, pan,
                       extra_responses>>

ApplyUser ==
    /\ InLoop /\ response.type = "User"
    /\ Advance
    /\ UNCHANGED <<graph_vars, editor_vars, extra_responses>>

\* unreachable!(): the UI should never produce a DeleteNodeFull event.
ApplyDeleteNodeFull ==
    /\ InLoop /\ response.type = "DeleteNodeFull"
    /\ Panic

\* ------------------------------------------------------------------ end of frame
\* The nodes whose drawn rect intersects the selection rectangle.
BoxHits ==
    LET selection_rect == from_two_pos(frame.cursor_pos, Unwrap(ongoing_box_selection))
    IN {n \in DOMAIN node_rects : intersects(selection_rect, node_rects[n])}

\* Mutant of BoxSelections: the nodes in the box are added to the selection.
BoxSelections_Union ==
    IF IsSome(ongoing_box_selection)
    THEN Orders(BoxHits \cup Range(selected_nodes))
    ELSE {selected_nodes}

\* selected_nodes after the box selection block: collected from the node_rects
\* hash map when a box selection is going on, left alone otherwise.
BoxSelections ==
    IF IsSome(ongoing_box_selection) THEN Orders(BoxHits) ELSE {selected_nodes}

\* Mutant of BackgroundPressed: a press outside the editor is ignored.
BackgroundPressed_InEditorOnly ==
    frame.any_pressed /\ ~cursor_in_finder /\ cursor_in_editor

\* mouse.any_pressed() && !cursor_in_finder
BackgroundPressed == frame.any_pressed /\ ~cursor_in_finder

\* drag_released_on_background: r.drag_stopped() is looked at only when
\* r.drag_started() is false.
drag_released_on_background == frame.bg_drag_stopped /\ ~frame.bg_drag_started

\* Mutant of BoxSelectionAfter: only the release of the background drag ends
\* the box selection.
BoxSelectionAfter_DragStopOnly ==
    IF drag_released_on_background THEN None
    ELSE IF frame.bg_drag_started /\ frame.primary_down THEN Some(frame.cursor_pos)
    ELSE ongoing_box_selection

\* ongoing_box_selection at the end of the frame.
BoxSelectionAfter ==
    IF frame.primary_released \/ drag_released_on_background THEN None
    ELSE IF frame.bg_drag_started /\ frame.primary_down THEN Some(frame.cursor_pos)
    ELSE ongoing_box_selection

\* The part of the end of the frame that the mutants below share.
EndFrameWith(returned, cancel) ==
    /\ pc = "apply" /\ ~panicked /\ idx = Len(delayed_responses)
    /\ \E boxed \in BoxSelections :
       LET opened == IF frame.secondary_released /\ ~cursor_in_finder
                     THEN Some(frame.cursor_pos) ELSE node_finder
           escaped == IF frame.escape THEN None ELSE opened
           pressed == BackgroundPressed
       IN /\ node_responses' = returned
          /\ connection_in_progress' =
                IF cancel /\ IsSome(connection_in_progress)
                THEN None ELSE connection_in_progress
          /\ pan' = IF frame.bg_dragged_middle THEN pan + frame.drag_delta ELSE pan
          /\ selected_nodes' = IF pressed /\ cursor_in_editor THEN <<>> ELSE boxed
          /\ node_finder' = IF pressed THEN None ELSE escaped
          /\ ongoing_box_selection' = BoxSelectionAfter
    /\ pc' = "returned"
    /\ prev' = Snapshot
    /\ UNCHANGED <<graph_vars, node_order, node_positions, node_orientations,
                   frame, delayed_responses, idx, extra_responses, node_rects,
                   cursor_in_editor, cursor_in_finder, panicked>>

\* Mutant of EndFrame: the extra responses are put in front of the direct ones.
EndFrame_ExtraFirst ==
    EndFrameWith(extra_responses \o delayed_responses, frame.any_released)

\* Mutant of EndFrame: only a primary release cancels the connection.
EndFrame_PrimaryOnly ==
    EndFrameWith(delayed_responses \o extra_responses, frame.primary_released)

\* Mutant of EndFrame: the User responses are kept out of the returned list.
EndFrame_DropsUser ==
    EndFrameWith(SelectSeq(delayed_responses, LAMBDA r : r.type # "User")
                    \o extra_responses,
                 frame.any_released)

\* draw_graph_editor after the response loop: box selection, the extra
\* responses, the global pointer and key handling, and the return value.
EndFrame == EndFrameWith(delayed_responses \o extra_responses, frame.any_released)

\* The caller takes the GraphResponse; the frame's locals are gone.
Return ==
    /\ pc = "returned" /\ ~panicked
    /\ pc' = "idle"
    /\ frame' = NoInput
    /\ delayed_responses' = <<>>
    /\ idx' = 0
    /\ extra_responses' = <<>>
    /\ node_rects' = <<>>
    /\ node_responses' = <<>>
    /\ cursor_in_editor' = FALSE
    /\ cursor_in_finder' = FALSE
    /\ prev' = [Snapshot EXCEPT !.extra_responses = <<>>]
    /\ UNCHANGED <<graph_vars, editor_vars, panicked>>

\* ------------------------------------------------------------------ frames
\* GraphEditorState::default(): an empty graph, nothing selected, no finder.
Init ==
    /\ nodes = [n \in {} |-> 0]
    /\ inputs = [p \in {} |-> 0]
    /\ outputs = [p \in {} |-> 0]
    /\ connections = {}
    /\ next_node = 0
    /\ node_order = <<>>
    /\ node_positions = [n \in {} |-> 0]
    /\ node_orientations = [n \in {} |-> 0]
    /\ selected_nodes = <<>>
    /\ connection_in_progress = None
    /\ ongoing_box_selection = None
    /\ node_finder = None
    /\ pan = 0
    /\ pc = "idle"
    /\ frame = NoInput
    /\ delayed_responses = <<>>
    /\ idx = 0
    /\ extra_responses = <<>>
    /\ node_rects = <<>>
    /\ node_responses = <<>>
    /\ cursor_in_editor = FALSE
    /\ cursor_in_finder = FALSE
    /\ panicked = FALSE
    /\ prev = Snapshot

\* The kinds the node finder offers.
Kinds == {"Unary"}
KindPorts(role) ==
    UNION {1..Len(IF role = "Input" THEN Template(k).inputs ELSE Template(k).outputs)
           : k \in Kinds}

\* Ids the caller can hold: every id handed out so far, live or stale.
KnownNodes == 1..next_node
KnownInputs == {<<"Input", n, k>> : n \in KnownNodes, k \in KindPorts("Input")}
KnownOutputs == {<<"Output", n, k>> : n \in KnownNodes, k \in KindPorts("Output")}

\* Responses the caller may put in prepend_responses.
PrependResponses ==
    {ConnectEventStarted(n, p) : n \in KnownNodes, p \in KnownInputs \cup KnownOutputs}
    \cup {ConnectEventEnded(i, o) : i \in KnownInputs, o \in KnownOutputs}
    \cup {DisconnectEvent(i, o) : i \in KnownInputs, o \in KnownOutputs}
    \cup {CreatedNode(n) : n \in KnownNodes}
    \cup {SelectNode(n) : n \in KnownNodes}
    \cup {DeleteNodeUi(n) : n \in KnownNodes}
    \cup {DeleteNodeFull(n) : n \in KnownNodes}
    \cup {RaiseNode(n) : n \in KnownNodes}
    \cup {User}

RECURSIVE SeqsUpTo(_, _)
SeqsUpTo(S, n) ==
    IF n = 0 THEN {<<>>}
    ELSE LET shorter == SeqsUpTo(S, n - 1)
         IN shorter \cup {Append(q, x) : q \in shorter, x \in S}

\* A drag starts on a port; another button may be released in the same
\* frame, and the caller may have passed prepend_responses.
FramePortDragStart ==
    /\ ~IsSome(connection_in_progress)
    /\ \E p \in PortLocations(Graph, node_order), rel \in BOOLEAN,
          pre \in SeqsUpTo(PrependResponses, MaxPrepend) :
        DrawPass([NoInput EXCEPT !.drag_started = p, !.primary_down = TRUE,
                                 !.any_released = rel, !.prepend = pre])

\* The primary button is released during a connection drag, with some ports
\* within the connect distance of the pointer.
FramePortRelease ==
    /\ IsSome(connection_in_progress)
    /\ \E near \in SUBSET PortLocations(Graph, node_order) :
        /\ Cardinality(near) <= 2
        /\ DrawPass([NoInput EXCEPT !.close_enough = near, !.any_released = TRUE,
                                    !.primary_released = TRUE])

\* A primary click on a node's window, close button or flip button.
FrameWindowClick ==
    /\ node_order # <<>>
    /\ \E n \in Range(node_order) :
        DrawPass([NoInput EXCEPT !.window_click = n, !.any_released = TRUE,
                                 !.primary_released = TRUE])

FrameCloseClick ==
    /\ node_order # <<>>
    /\ \E n \in Range(node_order) :
        DrawPass([NoInput EXCEPT !.close_click = n, !.any_released = TRUE,
                                 !.primary_released = TRUE])

FrameFlipClick ==
    /\ node_order # <<>>
    /\ \E n \in Range(node_order) :
        DrawPass([NoInput EXCEPT !.flip_click = n, !.any_released = TRUE,
                                 !.primary_released = TRUE])

\* The secondary button is released, over the finder or not.
FrameSecondaryRelease ==
    /\ pc = "idle"
    /\ \E over \in BOOLEAN :
        DrawPass([NoInput EXCEPT !.secondary_released = TRUE, !.any_released = TRUE,
                                 !.in_finder_rect = over])

\* A kind is confirmed in the open node finder.
FrameFinderConfirm ==
    /\ IsSome(node_finder)
    /\ next_node < MaxNodes
    /\ \E kind \in Kinds :
        DrawPass([NoInput EXCEPT !.confirm = kind, !.in_finder_rect = TRUE,
                                 !.any_released = TRUE, !.primary_released = TRUE])

FrameEscape ==
    /\ pc = "idle"
    /\ DrawPass([NoInput EXCEPT !.escape = TRUE])

\* A button goes down somewhere: inside or outside the editor, over the
\* finder or not.
FramePress ==
    /\ pc = "idle"
    /\ \E ed \in BOOLEAN, fi \in BOOLEAN :
        DrawPass([NoInput EXCEPT !.any_pressed = TRUE, !.primary_down = TRUE,
                                 !.in_editor_rect = ed, !.in_finder_rect = fi])

\* The caller passes prepend_responses; nothing else happens in the frame
\* except, possibly, the release of a button.
FramePrepend ==
    /\ pc = "idle"
    /\ \E pre \in SeqsUpTo(PrependResponses, MaxPrepend) \ {<<>>}, rel \in BOOLEAN :
        DrawPass([NoInput EXCEPT !.prepend = pre, !.any_released = rel])

\* The response loop and the rest of the frame.
Reduce ==
    \/ ApplyConnectEventStarted
    \/ ApplyConnectEventEnded
    \/ ApplyCreatedNode
    \/ ApplySelectNode
    \/ ApplyDeleteNodeUi
    \/ ApplyDisconnectEvent
    \/ ApplyRaiseNode
    \/ ApplyUser
    \/ ApplyDeleteNodeFull
    \/ EndFrame
    \/ Return

Next ==
    \/ FramePortDragStart
    \/ FramePortRelease
    \/ FrameWindowClick
    \/ FrameCloseClick
    \/ FrameSecondaryRelease
    \/ FrameFinderConfirm
    \/ FrameEscape
    \/ FramePress
    \/ FramePrepend
    \/ Reduce

Spec == Init /\ [][Next]_vars

\* ------------------------------------------------------------------ host
\* The example's "Create a node" button: add_node with an empty builder,
\* node_order.push, node_positions.insert, then build_node.
HostPosition == 20
HostCreateNode ==
    /\ pc = "idle" /\ ~panicked
    /\ next_node < MaxNodes
    /\ LET g1 == add_node(Graph, Template("Node"))
       IN /\ SetGraph(g1)
          /\ node_order' = Append(node_order, g1.next_node)
          /\ node_positions' = node_positions @@ (g1.next_node :> HostPosition)
    /\ prev' = Snapshot
    /\ UNCHANGED <<node_orientations, selected_nodes, connection_in_progress,
                   ongoing_box_selection, node_finder, pan, frame_vars, panicked>>

\* The example application: the button, and frames without prepend_responses.
NextHost ==
    \/ HostCreateNode
    \/ FrameSecondaryRelease
    \/ FrameFinderConfirm
    \/ FrameWindowClick
    \/ FrameCloseClick
    \/ FrameFlipClick
    \/ ApplyCreatedNode
    \/ ApplySelectNode
    \/ ApplyDeleteNodeUi
    \/ ApplyRaiseNode
    \/ EndFrame
    \/ Return

SpecHost == Init /\ [][NextHost]_vars

\* ------------------------------------------------------------------ editing
\* Frames of window dragging and box selection, on up to MaxEditNodes nodes
\* placed at the points 0..MaxPoint.
MaxEditNodes == 3
MaxPoint == 1
Points == 0..MaxPoint
Deltas == {-1, 1}

\* A kind is confirmed in the open node finder with the pointer at `at`.
FrameFinderConfirmAt ==
    /\ IsSome(node_finder)
    /\ next_node < MaxEditNodes
    /\ \E kind \in Kinds, at \in Points :
        DrawPass([NoInput EXCEPT !.confirm = kind, !.in_finder_rect = TRUE,
                                 !.any_released = TRUE, !.primary_released = TRUE,
                                 !.cursor_pos = at])

\* A node's window is dragged by drag_delta.
FrameWindowDrag ==
    /\ node_order # <<>>
    /\ ~IsSome(ongoing_box_selection)
    /\ \E n \in Range(node_order), d \in Deltas :
        /\ \A m \in Moved(n) \cap DOMAIN node_positions : node_positions[m] + d \in Points
        /\ DrawPass([NoInput EXCEPT !.window_drag = n, !.drag_delta = d,
                                    !.primary_down = TRUE])

\* A primary-button drag starts on the background.
FrameBoxStart ==
    /\ ~IsSome(ongoing_box_selection)
    /\ \E at \in Points :
        DrawPass([NoInput EXCEPT !.bg_drag_started = TRUE, !.primary_down = TRUE,
                                 !.cursor_pos = at])

\* The pointer moves while the box selection is going on.
FrameBoxDrag ==
    /\ IsSome(ongoing_box_selection)
    /\ \E at \in Points :
        DrawPass([NoInput EXCEPT !.primary_down = TRUE, !.cursor_pos = at])

\* The primary button is released, which ends the box selection.
FrameBoxStop ==
    /\ IsSome(ongoing_box_selection)
    /\ \E at \in Points :
        DrawPass([NoInput EXCEPT !.bg_drag_stopped = TRUE, !.primary_released = TRUE,
                                 !.any_released = TRUE, !.cursor_pos = at])

NextEdit ==
    \/ FrameSecondaryRelease
    \/ FrameFinderConfirmAt
    \/ FrameWindowClick
    \/ FrameWindowDrag
    \/ FrameBoxStart
    \/ FrameBoxDrag
    \/ FrameBoxStop
    \/ FramePress
    \/ ApplyCreatedNode
    \/ ApplySelectNode
    \/ ApplyRaiseNode
    \/ ApplyMoveNode
    \/ EndFrame
    \/ Return

SpecEdit == Init /\ [][NextEdit]_vars

\* A frame of the background widget and the pointer buttons in any
\* combination: a drag of the background starts or stops, with the primary
\* button down or not, released or not.
FrameBackground ==
    /\ pc = "idle"
    /\ \E started \in BOOLEAN, stopped \in BOOLEAN, down \in BOOLEAN,
          released \in BOOLEAN, at \in Points :
        /\ ~(started /\ stopped)
        /\ DrawPass([NoInput EXCEPT !.bg_drag_started = started,
                                    !.bg_drag_stopped = stopped,
                                    !.primary_down = down,
                                    !.primary_released = released,
                                    !.any_released = (released \/ stopped),
                                    !.cursor_pos = at])

NextBox ==
    \/ NextEdit
    \/ FrameBackground

SpecBox == Init /\ [][NextBox]_vars

\* ------------------------------------------------------------------ deletion
\* Deletion among up to MaxEditNodes placed, box-selected and linked nodes.
\* The caller links two live ports with a prepended ConnectEventEnded.
FrameLink ==
    /\ pc = "idle"
    /\ \E i \in KnownInputs \cap DOMAIN inputs, o \in KnownOutputs \cap DOMAIN outputs :
        DrawPass([NoInput EXCEPT !.prepend = <<ConnectEventEnded(i, o)>>])

NextDelete ==
    \/ FrameSecondaryRelease
    \/ FrameFinderConfirmAt
    \/ FrameBoxStart
    \/ FrameLink
    \/ FrameCloseClick
    \/ ApplyConnectEventEnded
    \/ ApplyCreatedNode
    \/ ApplyDeleteNodeUi
    \/ EndFrame
    \/ Return

SpecDelete == Init /\ [][NextDelete]_vars

\* ------------------------------------------------------------------ UI only
\* Frames whose responses all come from the node UIs and the node finder:
\* the caller prepends nothing.  The finder offers kinds of two data types.
MaxUiNodes == 3
UiKinds == {"Unary", "Typed"}

FrameFinderConfirmUi ==
    /\ IsSome(node_finder)
    /\ next_node < MaxUiNodes
    /\ \E kind \in UiKinds :
        DrawPass([NoInput EXCEPT !.confirm = kind, !.in_finder_rect = TRUE,
                                 !.any_released = TRUE, !.primary_released = TRUE])

\* A drag starts on a port.
FramePortDragStartUi ==
    /\ ~IsSome(connection_in_progress)
    /\ \E p \in PortLocations(Graph, node_order) :
        DrawPass([NoInput EXCEPT !.drag_started = p, !.primary_down = TRUE])

NextUi ==
    \/ FrameSecondaryRelease
    \/ FrameFinderConfirmUi
    \/ FramePortDragStartUi
    \/ FramePortRelease
    \/ FrameCloseClick
    \/ ApplyConnectEventStarted
    \/ ApplyConnectEventEnded
    \/ ApplyCreatedNode
    \/ ApplyDeleteNodeUi
    \/ ApplyDisconnectEvent
    \/ EndFrame
    \/ Return

SpecUi == Init /\ [][NextUi]_vars

\* ------------------------------------------------------------------ mixed frames
\* Frames in which several sources of responses act at once: the caller's
\* prepend_responses, the hooks of several nodes, a close button and the node
\* finder; the background may be dragged with the middle button.
MaxPan == 1

FlowPrepends ==
    {r \in PrependResponses :
        r.type \in {"User", "DeleteNodeUi", "ConnectEventEnded", "RaiseNode"}}

FramePan ==
    /\ pc = "idle"
    /\ pan < MaxPan
    /\ DrawPass([NoInput EXCEPT !.bg_dragged_middle = TRUE, !.drag_delta = 1])

FrameMixed ==
    /\ pc = "idle"
    /\ \E pre \in SeqsUpTo(FlowPrepends, MaxPrepend),
          hooked \in SUBSET Range(node_order),
          closed \in Range(node_order) \cup {0},
          kind \in (IF next_node < MaxNodes THEN UiKinds \cup {""} ELSE {""}) :
        DrawPass([NoInput EXCEPT !.prepend = pre, !.user = hooked,
                                 !.close_click = closed, !.confirm = kind,
                                 !.in_finder_rect = (kind # ""),
                                 !.any_released = TRUE, !.primary_released = TRUE])

NextFlow ==
    \/ FrameSecondaryRelease
    \/ FramePan
    \/ FrameMixed
    \/ ApplyConnectEventEnded
    \/ ApplyCreatedNode
    \/ ApplyDeleteNodeUi
    \/ ApplyRaiseNode
    \/ ApplyUser
    \/ EndFrame
    \/ Return

SpecFlow == Init /\ [][NextFlow]_vars

\* ------------------------------------------------------------------ vetoed deletion
\* Frames of the node UIs alone in which payloads veto deletion: Pinned nodes
\* in every frame, other nodes in the frames whose input says so.
VetoKinds == {"Unary", "Pinned"}

FrameFinderConfirmVeto ==
    /\ IsSome(node_finder)
    /\ next_node < MaxUiNodes
    /\ \E kind \in VetoKinds :
        DrawPass([NoInput EXCEPT !.confirm = kind, !.in_finder_rect = TRUE,
                                 !.any_released = TRUE, !.primary_released = TRUE])

\* A primary click where a node's close button is, or would be.
FrameCloseClickVeto ==
    /\ node_order # <<>>
    /\ \E n \in Range(node_order), veto \in SUBSET Range(node_order) :
        DrawPass([NoInput EXCEPT !.close_click = n, !.vetoed = veto,
                                 !.any_released = TRUE, !.primary_released = TRUE])

NextVeto ==
    \/ FrameSecondaryRelease
    \/ FrameFinderConfirmVeto
    \/ FrameCloseClickVeto
    \/ FrameWindowClick
    \/ ApplyCreatedNode
    \/ ApplySelectNode
    \/ ApplyDeleteNodeUi
    \/ ApplyRaiseNode
    \/ EndFrame
    \/ Return

SpecVeto == Init /\ [][NextVeto]_vars

\* ------------------------------------------------------------------ node gestures
\* Frames in which the widgets of the nodes report several things at once: a
\* window click, a window drag, a click on a close button, a drag started on
\* a port, and User responses from payload hooks, on the same node or on
\* different nodes.
FrameNodeUi ==
    /\ node_order # <<>>
    /\ \E clicked \in Range(node_order) \cup {0},
          closed \in Range(node_order) \cup {0},
          dragged \in Range(node_order) \cup {0},
          hooked \in SUBSET Range(node_order),
          p \in (IF IsSome(connection_in_progress) THEN {NoPort}
                 ELSE PortLocations(Graph, node_order) \cup {NoPort}),
          d \in Deltas :
        /\ dragged # 0 => node_positions[dragged] + d \in Points
        /\ DrawPass([NoInput EXCEPT !.window_click = clicked, !.close_click = closed,
                                    !.window_drag = dragged,
                                    !.drag_delta = IF dragged = 0 THEN 0 ELSE d,
                                    !.user = hooked, !.drag_started = p,
                                    !.primary_down = (dragged # 0 \/ p # NoPort),
                                    !.any_released = (clicked # 0 \/ closed # 0),
                                    !.primary_released = (clicked # 0 \/ closed # 0)])

NextNode ==
    \/ FrameSecondaryRelease
    \/ FrameFinderConfirm
    \/ FrameNodeUi
    \/ ApplyConnectEventStarted
    \/ ApplyCreatedNode
    \/ ApplySelectNode
    \/ ApplyDeleteNodeUi
    \/ ApplyRaiseNode
    \/ ApplyMoveNode
    \/ ApplyUser
    \/ EndFrame
    \/ Return

SpecNode == Init /\ [][NextNode]_vars

\* ------------------------------------------------------------------ port kinds
\* Frames of the node UIs alone on nodes whose inputs differ in connectivity
\* kind and in being shown inline.  The pointer may press and release where
\* any port of a node is or would be.
PortKinds == {"Unary", "Hidden", "Const"}

\* All ports of the nodes in the draw order, drawn or not.
AllPorts(g, order) ==
    UNION {Range(g.nodes[n].inputs) \cup Range(g.nodes[n].outputs) : n \in Range(order)}

FrameFinderConfirmPorts ==
    /\ IsSome(node_finder)
    /\ next_node < MaxNodes
    /\ \E kind \in PortKinds :
        DrawPass([NoInput EXCEPT !.confirm = kind, !.in_finder_rect = TRUE,
                                 !.any_released = TRUE, !.primary_released = TRUE])

FramePortDragStartPorts ==
    /\ ~IsSome(connection_in_progress)
    /\ \E p \in AllPorts(Graph, node_order) :
        DrawPass([NoInput EXCEPT !.drag_started = p, !.primary_down = TRUE])

FramePortReleasePorts ==
    /\ IsSome(connection_in_progress)
    /\ \E near \in SUBSET AllPorts(Graph, node_order) :
        /\ Cardinality(near) <= 2
        /\ DrawPass([NoInput EXCEPT !.close_enough = near, !.any_released = TRUE,
                                    !.primary_released = TRUE])

NextPorts ==
    \/ FrameSecondaryRelease
    \/ FrameFinderConfirmPorts
    \/ FramePortDragStartPorts
    \/ FramePortReleasePorts
    \/ FrameCloseClick
    \/ ApplyConnectEventStarted
    \/ ApplyConnectEventEnded
    \/ ApplyCreatedNode
    \/ ApplyDeleteNodeUi
    \/ ApplyDisconnectEvent
    \/ EndFrame
    \/ Return

SpecPorts == Init /\ [][NextPorts]_vars

\* ------------------------------------------------------------------ deletion during a drag
\* Frames of the node UIs in which the only thing the caller ever prepends is
\* a DeleteNodeUi for a live node, possibly while a connection is being
\* dragged or released over a port.
FrameCallerDelete ==
    /\ node_order # <<>>
    /\ \E n \in Range(node_order), rel \in BOOLEAN,
          near \in SUBSET PortLocations(Graph, node_order) :
        /\ Cardinality(near) <= 1
        /\ near # {} => (rel /\ IsSome(connection_in_progress))
        /\ DrawPass([NoInput EXCEPT !.prepend = <<DeleteNodeUi(n)>>,
                                    !.close_enough = near,
                                    !.any_released = rel, !.primary_released = rel])

NextRace ==
    \/ FrameSecondaryRelease
    \/ FrameFinderConfirm
    \/ FramePortDragStartUi
    \/ FramePortRelease
    \/ FrameCallerDelete
    \/ ApplyConnectEventStarted
    \/ ApplyConnectEventEnded
    \/ ApplyCreatedNode
    \/ ApplyDeleteNodeUi
    \/ ApplyDisconnectEvent
    \/ EndFrame
    \/ Return

SpecRace == Init /\ [][NextRace]_vars

\* ------------------------------------------------------------------ deletion during a box selection
\* Box selection on placed nodes, with caller-prepended deletions of live
\* nodes while the selection is going on or not.
NextBoxDelete ==
    \/ FrameSecondaryRelease
    \/ FrameFinderConfirmAt
    \/ FrameBoxStart
    \/ FrameBoxDrag
    \/ FrameBoxStop
    \/ FrameCallerDelete
    \/ ApplyCreatedNode
    \/ ApplyDeleteNodeUi
    \/ EndFrame
    \/ Return

SpecBoxDelete == Init /\ [][NextBoxDelete]_vars

\* ------------------------------------------------------------------ deletion of a node in use
\* The caller prepends DeleteNodeUi for a live node in a frame in which the
\* window of that node is clicked or dragged.
FrameDeleteWhileUsed ==
    /\ node_order # <<>>
    /\ \E n \in Range(node_order), clicked \in BOOLEAN, dragged \in BOOLEAN :
        /\ ~(clicked /\ dragged)
        /\ DrawPass([NoInput EXCEPT !.prepend = <<DeleteNodeUi(n)>>,
                                    !.window_click = IF clicked THEN n ELSE 0,
                                    !.window_drag = IF dragged THEN n ELSE 0,
                                    !.drag_delta = IF dragged THEN 1 ELSE 0,
                                    !.primary_down = dragged,
                                    !.any_released = clicked,
                                    !.primary_released = clicked])

NextDeleteUsed ==
    \/ FrameSecondaryRelease
    \/ FrameFinderConfirm
    \/ FrameWindowClick
    \/ FrameDeleteWhileUsed
    \/ ApplyCreatedNode
    \/ ApplySelectNode
    \/ ApplyDeleteNodeUi
    \/ ApplyRaiseNode
    \/ ApplyMoveNode
    \/ EndFrame
    \/ Return

SpecDeleteUsed == Init /\ [][NextDeleteUsed]_vars

\* ------------------------------------------------------------------ pointer over the ports
\* UI-only frames in which the pointer does anything to the ports: a drag
\* gesture on a port, ports within the connect distance, a button release,
\* in every combination and with or without a connection drag going on.
FramePortGesture ==
    /\ pc = "idle"
    /\ \E p \in PortLocations(Graph, node_order) \cup {NoPort},
          near \in SUBSET PortLocations(Graph, node_order), rel \in BOOLEAN :
        /\ Cardinality(near) <= 2
        /\ p # NoPort \/ near # {} \/ rel
        /\ DrawPass([NoInput EXCEPT !.drag_started = p, !.close_enough = near,
                                    !.any_released = rel, !.primary_released = rel,
                                    !.primary_down = ~rel])

NextDrag ==
    \/ FrameSecondaryRelease
    \/ FrameFinderConfirmUi
    \/ FramePortGesture
    \/ ApplyConnectEventStarted
    \/ ApplyConnectEventEnded
    \/ ApplyCreatedNode
    \/ ApplyDisconnectEvent
    \/ EndFrame
    \/ Return

SpecDrag == Init /\ [][NextDrag]_vars

\* ------------------------------------------------------------------ press and drag on a node
\* The primary button goes down on a node's window: the window reports no
\* click and no drag delta yet, the pointer is inside the editor rectangle
\* and outside the creation menu.  The button was up before: no box
\* selection is going on.
FramePressOnNode ==
    /\ node_order # <<>>
    /\ ~IsSome(ongoing_box_selection)
    /\ \E n \in Range(node_order) :
        DrawPass([NoInput EXCEPT !.any_pressed = TRUE, !.primary_down = TRUE,
                                 !.window_drag = n, !.drag_delta = 0])

NextGroup ==
    \/ FrameSecondaryRelease
    \/ FrameFinderConfirmAt
    \/ FrameBoxStart
    \/ FrameBoxDrag
    \/ FrameBoxStop
    \/ FramePressOnNode
    \/ FrameWindowDrag
    \/ ApplyCreatedNode
    \/ ApplyRaiseNode
    \/ ApplyMoveNode
    \/ EndFrame
    \/ Return

SpecGroup == Init /\ [][NextGroup]_vars

\* ================================================================== claims
FrameBoundary == pc \in {"idle", "returned"} /\ ~panicked

\* The response loop has just applied a response of this type; `prev` is the
\* state it was applied to.
JustApplied(type) ==
    pc = "apply" /\ ~panicked /\ idx > 0 /\ delayed_responses[idx].type = type
applied == delayed_responses[idx]

\* The responses the node UIs pushed in the running frame.
UiResponses == SubSeq(delayed_responses, Len(frame.prepend) + 1, Len(delayed_responses))

\* The responses the last applied response added to extra_responses.
NewExtras ==
    SubSeq(extra_responses, Len(prev.extra_responses) + 1, Len(extra_responses))

\* Links of the graph g into the inputs / out of the outputs of node n.
Incoming(g, n) == {c \in g.connections : c[1] \in Range(g.nodes[n].inputs)}
Outgoing(g, n) == {c \in g.connections : c[2] \in Range(g.nodes[n].outputs)}

\* C1: at every frame boundary node_order holds exactly the live node ids of
\* the graph, each exactly once.
C1_NodeOrderIsLiveNodes ==
    FrameBoundary =>
        /\ Range(node_order) = DOMAIN nodes
        /\ Len(node_order) = Cardinality(DOMAIN nodes)

\* A frame that deleted one of two created nodes has returned.
C1_Witness ==
    /\ pc = "returned" /\ ~panicked
    /\ next_node = 2
    /\ Len(node_order) = 1
    /\ \E k \in 1..Len(node_responses) : node_responses[k].type = "DeleteNodeFull"

\* C2: every input has at most one connection (an output may feed several
\* inputs), and right after ConnectEventEnded{input, output} the input's only
\* connection is the one to `output`.
C2_FanInAtMostOne ==
    /\ \A c \in connections : \A d \in connections : c[1] = d[1] => c = d
    /\ JustApplied("ConnectEventEnded") =>
        {c \in connections : c[1] = applied.input} = {<<applied.input, applied.output>>}

\* ConnectEventEnded has replaced the link of a connected input by a link to
\* an output that also feeds another input.
C2_Witness ==
    /\ JustApplied("ConnectEventEnded")
    /\ IsSome(connection(prev.graph, applied.input))
    /\ Unwrap(connection(prev.graph, applied.input)) # applied.output
    /\ \E c \in connections : c[2] = applied.output /\ c[1] # applied.input

\* C3 (as claimed): at the start of a frame every node of node_order has a
\* position and an orientation, also after the host's "Create a node".
C3_OrderedNodesHavePositionAndOrientation ==
    (pc = "idle" /\ ~panicked) =>
        \A n \in Range(node_order) :
            n \in DOMAIN node_positions /\ n \in DOMAIN node_orientations

\* C4 (as claimed): DeleteNodeUi(n) with k links into n's inputs and m links
\* out of n's outputs pushes exactly k+m DisconnectEvents and then one
\* DeleteNodeFull(n).
C4_KPlusMDisconnects ==
    JustApplied("DeleteNodeUi") =>
        LET k == Cardinality(Incoming(prev.graph, applied.node))
            m == Cardinality(Outgoing(prev.graph, applied.node))
        IN /\ Len(NewExtras) = k + m + 1
           /\ \A j \in 1..(k + m) : NewExtras[j].type = "DisconnectEvent"
           /\ NewExtras[k + m + 1] = DeleteNodeFull(applied.node)

\* C4 (amended): DeleteNodeUi(n) pushes exactly one DisconnectEvent per severed
\* (input, output) pair, a link from n's own output to n's own input counting
\* once (k+m-s events for s such links), and then exactly one
\* DeleteNodeFull(n), after all of them.
C4_OneDisconnectPerSeveredLink ==
    JustApplied("DeleteNodeUi") =>
        LET into == Incoming(prev.graph, applied.node)
            outof == Outgoing(prev.graph, applied.node)
            count == Cardinality(into) + Cardinality(outof) - Cardinality(into \cap outof)
        IN /\ Len(NewExtras) = count + 1
           /\ \A j \in 1..count : NewExtras[j].type = "DisconnectEvent"
           /\ \A c \in into \cup outof :
                Cardinality({j \in 1..count :
                    NewExtras[j] = DisconnectEvent(c[1], c[2])}) = 1
           /\ NewExtras[count + 1] = DeleteNodeFull(applied.node)

\* A node with a link into its input and a link out of its output, on
\* different connections, has been deleted.
C4_Witness ==
    /\ JustApplied("DeleteNodeUi")
    /\ Incoming(prev.graph, applied.node) # {}
    /\ Outgoing(prev.graph, applied.node) # {}
    /\ Incoming(prev.graph, applied.node) \cap Outgoing(prev.graph, applied.node) = {}

\* C5: right after DeleteNodeUi(n) no connection has an input or an output
\* that belonged to n.
C5_NoLinkTouchesDeletedNode ==
    JustApplied("DeleteNodeUi") =>
        \A c \in connections :
            /\ c[1] \notin Range(prev.graph.nodes[applied.node].inputs)
            /\ c[2] \notin Range(prev.graph.nodes[applied.node].outputs)

\* A node that fed another node and was fed by it has been deleted; the other
\* node is still in the graph.
C5_Witness ==
    /\ JustApplied("DeleteNodeUi")
    /\ DOMAIN nodes # {}
    /\ \E c \in prev.graph.connections :
        /\ c[1] \in Range(prev.graph.nodes[applied.node].inputs)
        /\ c[2] \in DOMAIN outputs
    /\ \E c \in prev.graph.connections :
        /\ c[2] \in Range(prev.graph.nodes[applied.node].outputs)
        /\ c[1] \in DOMAIN inputs

\* C6 (as claimed): every response of the returned list, the synthesized
\* ones included, went through the response loop exactly once.
C6_SynthesizedAreProcessed ==
    (pc = "returned" /\ ~panicked) => idx = Len(node_responses)

Count(s, type) == Cardinality({k \in 1..Len(s) : s[k].type = type})

\* C6 (amended): the synthesized responses (the DisconnectEvents and the
\* DeleteNodeFull of each DeleteNodeUi) are appended to the returned list after
\* all direct responses, each once; the response loop runs over the direct
\* responses only and never applies a synthesized one.
C6_SynthesizedAreAppendedOnly ==
    (pc = "returned" /\ ~panicked) =>
        /\ idx = Len(delayed_responses)
        /\ node_responses = delayed_responses \o extra_responses
        /\ \A k \in 1..Len(extra_responses) :
            extra_responses[k].type \in {"DisconnectEvent", "DeleteNodeFull"}
        /\ Count(extra_responses, "DeleteNodeFull") = Count(delayed_responses, "DeleteNodeUi")
        /\ \A k \in 1..Len(delayed_responses) :
            delayed_responses[k].type = "DeleteNodeUi" =>
                Count(SubSeq(node_responses, Len(delayed_responses) + 1,
                             Len(node_responses)), "DeleteNodeFull") >= 1

\* A frame has returned whose DeleteNodeUi was followed by another direct
\* response and severed a link.
C6_Witness ==
    /\ pc = "returned" /\ ~panicked
    /\ Len(delayed_responses) >= 2
    /\ delayed_responses[1].type = "DeleteNodeUi"
    /\ Len(extra_responses) >= 2

\* C7 (as claimed): a DisconnectEvent for an input without a connection
\* changes neither the graph nor the editor state.
C7_DisconnectWithoutLinkIsNoOp ==
    (JustApplied("DisconnectEvent") /\ ~IsSome(connection(prev.graph, applied.input)))
        => Snapshot = prev

\* C7 (amended): a DisconnectEvent{input, output} for an input without a
\* connection leaves the graph and every editor field other than
\* connection_in_progress unchanged and sets connection_in_progress to
\* (owner of output, Output(output)); a second application in a row changes
\* nothing.
C7_DisconnectWithoutLinkOnlyRearms ==
    /\ (JustApplied("DisconnectEvent") /\ ~IsSome(connection(prev.graph, applied.input)))
        => /\ [Snapshot EXCEPT !.connection_in_progress = prev.connection_in_progress]
                = prev
           /\ connection_in_progress =
                <<prev.graph.outputs[applied.output].node, applied.output>>
    /\ (JustApplied("DisconnectEvent") /\ idx >= 2 /\ delayed_responses[idx - 1] = applied)
        => Snapshot = prev

\* The same DisconnectEvent has been applied twice in a row.
C7_Witness ==
    /\ JustApplied("DisconnectEvent")
    /\ idx >= 2
    /\ delayed_responses[idx - 1] = applied
    /\ ~IsSome(connection(prev.graph, applied.input))

\* C8: a drag started on a connected input makes the UI push
\* DisconnectEvent{input, o} and no ConnectEventStarted; once a DisconnectEvent
\* is applied, the input has no connection and connection_in_progress is
\* (owner of o, Output(o)).
C8_UnplugByDrag ==
    /\ (/\ pc = "apply" /\ ~panicked /\ idx = 0
        /\ IsInput(frame.drag_started)
        /\ IsSome(connection(Graph, frame.drag_started)))
        => /\ \E k \in 1..Len(UiResponses) :
                UiResponses[k] = DisconnectEvent(frame.drag_started,
                                    Unwrap(connection(Graph, frame.drag_started)))
           /\ \A k \in 1..Len(UiResponses) : UiResponses[k].type # "ConnectEventStarted"
    /\ JustApplied("DisconnectEvent")
        => /\ ~IsSome(connection(Graph, applied.input))
           /\ connection_in_progress =
                <<prev.graph.outputs[applied.output].node, applied.output>>

\* The UI's DisconnectEvent for an input fed by another node has been applied.
C8_Witness ==
    /\ JustApplied("DisconnectEvent")
    /\ idx = Len(frame.prepend) + 1
    /\ frame.drag_started = applied.input
    /\ connection(prev.graph, applied.input) = Some(applied.output)
    /\ prev.graph.outputs[applied.output].node # prev.graph.inputs[applied.input].node
    /\ connection_in_progress[1] = prev.graph.outputs[applied.output].node

\* The graph after ConnectEventEnded{i, o} and then DisconnectEvent{i, o}.
RoundTrip(i, o) ==
    DisconnectEventGraph(ConnectEventEndedGraph(Graph, ConnectEventEnded(i, o)),
                         DisconnectEvent(i, o))

\* C9 (as claimed): add_connection(o, i) then remove_connection(i) restores
\* the connection set, whatever the prior state of i, and keeps both types.
C9_RoundTripAnyInput ==
    \A i \in DOMAIN inputs : \A o \in DOMAIN outputs :
        /\ RoundTrip(i, o).connections = connections
        /\ any_param_type(RoundTrip(i, o), i) = any_param_type(Graph, i)
        /\ any_param_type(RoundTrip(i, o), o) = any_param_type(Graph, o)

\* C9 (amended): add_connection(o, i) then remove_connection(i) restores the
\* connection set when i had no connection before; when i was connected, its
\* prior link is gone and every other link is kept; any_param_type of both
\* ports is unchanged in both cases.
C9_RoundTripUnconnectedInput ==
    \A i \in DOMAIN inputs : \A o \in DOMAIN outputs :
        /\ ~IsSome(connection(Graph, i)) => RoundTrip(i, o).connections = connections
        /\ RoundTrip(i, o).connections = {c \in connections : c[1] # i}
        /\ any_param_type(RoundTrip(i, o), i) = any_param_type(Graph, i)
        /\ any_param_type(RoundTrip(i, o), o) = any_param_type(Graph, o)

\* ConnectEventEnded has connected an input that had no connection, beside
\* another link, and removing the new link gives back the graph before it.
C9_Witness ==
    /\ JustApplied("ConnectEventEnded")
    /\ ~IsSome(connection(prev.graph, applied.input))
    /\ prev.graph.connections # {}
    /\ applied.input \in DOMAIN inputs /\ applied.output \in DOMAIN outputs
    /\ DisconnectEventGraph(Graph, DisconnectEvent(applied.input, applied.output))
        = prev.graph

\* C10: at the end of a frame in which a pointer button was released,
\* connection_in_progress is unset.
C10_ReleaseCancelsConnection ==
    (pc = "returned" /\ ~panicked /\ frame.any_released) => ~IsSome(connection_in_progress)

\* A frame with a release has returned in which a ConnectEventStarted or a
\* DisconnectEvent had armed a connection.
C10_Witness ==
    /\ pc = "returned" /\ ~panicked /\ frame.any_released
    /\ IsSome(prev.connection_in_progress)
    /\ \E k \in 1..Len(delayed_responses) :
        delayed_responses[k].type \in {"ConnectEventStarted", "DisconnectEvent"}

\* A frame has returned during which a box selection was going on and no
\* button went down over the editor.
BoxFrameReturned ==
    /\ pc = "returned" /\ ~panicked
    /\ IsSome(prev.ongoing_box_selection)
    /\ ~(frame.any_pressed /\ ~cursor_in_finder /\ cursor_in_editor)

\* C11: in a frame in which a box selection is going on, selected_nodes
\* becomes exactly the nodes whose drawn rect shares a point with the rectangle
\* spanned by the drag-start point and the pointer, each once; a node selected
\* before that does not meet the rectangle is no longer selected.
C11_BoxSelectionReplaces ==
    BoxFrameReturned =>
        /\ \A n \in DOMAIN node_rects :
            n \in Range(selected_nodes) <=>
                \E x \in node_rects[n].min .. node_rects[n].max :
                    \/ Unwrap(prev.ongoing_box_selection) <= x /\ x <= frame.cursor_pos
                    \/ frame.cursor_pos <= x /\ x <= Unwrap(prev.ongoing_box_selection)
        /\ Range(selected_nodes) \subseteq DOMAIN node_rects
        /\ Len(selected_nodes) = Cardinality(Range(selected_nodes))

\* With A selected, a box that covers only B has left exactly B selected.
C11_Witness ==
    /\ BoxFrameReturned
    /\ Len(prev.selected_nodes) = 1
    /\ Len(selected_nodes) = 1
    /\ selected_nodes[1] # prev.selected_nodes[1]
    /\ prev.selected_nodes[1] \in DOMAIN node_rects

\* Position of x in the sequence s.
PositionOf(s, x) == CHOOSE k \in 1..Len(s) : s[k] = x

\* C12: RaiseNode(id) for an id in node_order moves id to the last position,
\* keeps the relative order of all other entries and keeps the length.
C12_RaiseMovesToTop ==
    JustApplied("RaiseNode") =>
        /\ Len(node_order) = Len(prev.node_order)
        /\ node_order[Len(node_order)] = applied.node
        /\ Range(node_order) = Range(prev.node_order)
        /\ \A a \in Range(node_order) \ {applied.node} :
           \A b \in Range(node_order) \ {applied.node} :
                PositionOf(node_order, a) < PositionOf(node_order, b)
                    <=> PositionOf(prev.node_order, a) < PositionOf(prev.node_order, b)

\* The bottom one of three nodes has been raised.
C12_Witness ==
    /\ JustApplied("RaiseNode")
    /\ Len(prev.node_order) = 3
    /\ prev.node_order[1] = applied.node
    /\ node_order = <<prev.node_order[2], prev.node_order[3], applied.node>>

\* C13: MoveNode{id, delta} adds delta to id's position; when id is selected
\* and the selection has more than one member, delta is added once to every
\* other selected node; every other position is unchanged.
C13_MoveNodeMovesGroup ==
    JustApplied("MoveNode") =>
        LET sel == Range(prev.selected_nodes)
            group == applied.node \in sel /\ Cardinality(sel) > 1
        IN /\ DOMAIN node_positions = DOMAIN prev.node_positions
           /\ \A n \in DOMAIN node_positions :
                node_positions[n] =
                    IF n = applied.node \/ (group /\ n \in sel)
                    THEN prev.node_positions[n] + applied.drag_delta
                    ELSE prev.node_positions[n]

\* With two of three nodes selected, one of the two has been moved.
C13_Witness ==
    /\ JustApplied("MoveNode")
    /\ Cardinality(DOMAIN node_positions) = 3
    /\ Len(prev.selected_nodes) = 2
    /\ applied.node \in Range(prev.selected_nodes)
    /\ \E n \in Range(prev.selected_nodes) :
        n # applied.node /\ node_positions[n] # prev.node_positions[n]
    /\ \E n \in DOMAIN node_positions :
        n \notin Range(prev.selected_nodes) /\ node_positions[n] = prev.node_positions[n]

\* C14: ConnectEventEnded{input, output} is applied without validation: the
\* link input<-output exists afterwards, it is the only link on that input, all
\* links on other inputs are kept, and nothing is synthesized for a replaced
\* link: a frame without DeleteNodeUi returns its direct responses only.
C14_ConnectReplacesSilently ==
    /\ JustApplied("ConnectEventEnded") =>
        /\ <<applied.input, applied.output>> \in connections
        /\ \A c \in connections : c[1] = applied.input => c[2] = applied.output
        /\ {c \in connections : c[1] # applied.input}
            = {c \in prev.graph.connections : c[1] # applied.input}
        /\ extra_responses = prev.extra_responses
    /\ (/\ pc = "returned" /\ ~panicked
        /\ \A k \in 1..Len(delayed_responses) : delayed_responses[k].type # "DeleteNodeUi")
        => node_responses = delayed_responses

\* A ConnectEventEnded joining a node's input to the node's own output has
\* replaced a link from another node, and nothing was synthesized.
C14_Witness ==
    /\ JustApplied("ConnectEventEnded")
    /\ IsSome(connection(prev.graph, applied.input))
    /\ Unwrap(connection(prev.graph, applied.input)) # applied.output
    /\ applied.input \in DOMAIN inputs /\ applied.output \in DOMAIN outputs
    /\ inputs[applied.input].node = outputs[applied.output].node
    /\ connections = {<<applied.input, applied.output>>}
    /\ idx = Len(delayed_responses)
    /\ extra_responses = <<>>

\* The draw pass of the running frame has just ended; no response is applied yet.
Drawn == pc = "apply" /\ ~panicked /\ idx = 0

\* The ConnectEventEnded responses the node UIs pushed in the running frame.
UiConnects ==
    {UiResponses[k] : k \in {j \in 1..Len(UiResponses) :
                                UiResponses[j].type = "ConnectEventEnded"}}

\* The end of the link r that is not the port the drag came from.
TargetPort(r) == IF r.input = connection_in_progress[2] THEN r.output ELSE r.input

\* C15: the node UIs push no ConnectEventEnded whose target port belongs to
\* the node the drag originated from; when only the node UIs produce
\* responses, no connection joins an input and an output of one node.
C15_NoSelfConnectionFromUi ==
    /\ Drawn =>
        \A r \in UiConnects :
            /\ IsSome(connection_in_progress)
            /\ PortNode(Graph, TargetPort(r)) # connection_in_progress[1]
            /\ PortNode(Graph, TargetPort(r)) # PortNode(Graph, connection_in_progress[2])
    /\ \A c \in connections : PortNode(Graph, c[1]) # PortNode(Graph, c[2])

\* The button was released over a port of the node the drag came from and
\* over a port of another node: only the other node's port pushed a response.
C15_Witness ==
    /\ Drawn
    /\ IsSome(connection_in_progress)
    /\ \E p \in frame.close_enough :
        /\ PortNode(Graph, p) = connection_in_progress[1]
        /\ p[1] # connection_in_progress[2][1]
    /\ Cardinality(UiConnects) = 1

\* The port p cannot take the link the drag offers: it has the same role as
\* the drag's port, or another data type.
Incompatible(p) ==
    \/ p[1] = connection_in_progress[2][1]
    \/ any_param_type(Graph, p) # any_param_type(Graph, connection_in_progress[2])

\* C16: every ConnectEventEnded pushed by the node UIs joins an input and an
\* output of equal data type, one of them the drag's port and the other a port
\* under the released pointer, stored as (input, output) whichever end the
\* drag began at; a port of another type or of the drag port's role pushes
\* nothing, and when the pointer is over such ports only, the release pushes no
\* response and no connection changes.
C16_ConnectNeedsMatchingPorts ==
    Drawn =>
        /\ \A r \in UiConnects :
            /\ IsSome(connection_in_progress)
            /\ r.input \in DOMAIN inputs /\ r.output \in DOMAIN outputs
            /\ inputs[r.input].typ = outputs[r.output].typ
            /\ connection_in_progress[2] \in {r.input, r.output}
            /\ TargetPort(r) \in frame.close_enough
            /\ ~Incompatible(TargetPort(r))
        /\ (/\ IsSome(connection_in_progress)
            /\ frame.any_released
            /\ \A p \in frame.close_enough : Incompatible(p))
            => /\ UiConnects = {}
               /\ connections = prev.graph.connections
               /\ frame.close_enough # {} => delayed_responses = <<>>

\* A drag that began at an input was released over an output of its type and
\* over an output of another type: one ConnectEventEnded, input first.
C16_Witness ==
    /\ Drawn
    /\ IsSome(connection_in_progress)
    /\ IsInput(connection_in_progress[2])
    /\ Cardinality(frame.close_enough) = 2
    /\ \E p \in frame.close_enough :
        IsOutput(p) /\ any_param_type(Graph, p) # any_param_type(Graph, connection_in_progress[2])
    /\ \E p \in frame.close_enough :
        delayed_responses = <<ConnectEventEnded(connection_in_progress[2], p)>>

\* The node whose UI pushed the response r.
EmitterOf(r) ==
    CASE r.type = "ConnectEventEnded" -> PortNode(prev.graph, TargetPort(r))
      [] r.type = "DisconnectEvent" -> PortNode(prev.graph, r.input)
      [] OTHER -> r.node

\* The layout of delayed_responses after the draw pass: the prepended
\* responses, the responses of the nodes in the order node_order had when the
\* frame began (one User per hooked node, one DeleteNodeUi for the node whose
\* close button was clicked, nothing else), then CreatedNode for a new node.
DrawnLayout ==
    LET n == Len(frame.prepend)
        created == next_node # prev.graph.next_node
        last == Len(delayed_responses) - (IF created THEN 1 ELSE 0)
        mid == (n + 1)..last
    IN /\ Len(delayed_responses) >= n
       /\ SubSeq(delayed_responses, 1, n) = frame.prepend
       /\ created => /\ Len(delayed_responses) > n
                     /\ delayed_responses[Len(delayed_responses)] = CreatedNode(next_node)
       /\ \A j \in mid : EmitterOf(delayed_responses[j]) \in Range(prev.node_order)
       /\ \A j \in mid : \A k \in mid :
            j < k => PositionOf(prev.node_order, EmitterOf(delayed_responses[j]))
                        <= PositionOf(prev.node_order, EmitterOf(delayed_responses[k]))
       /\ \A m \in frame.user :
            Cardinality({j \in mid : delayed_responses[j] = UserOf(m)}) = 1
       /\ frame.close_click # 0 =>
            Cardinality({j \in mid : delayed_responses[j] = DeleteNodeUi(frame.close_click)}) = 1
       /\ Cardinality(mid) = Cardinality(frame.user) + (IF frame.close_click # 0 THEN 1 ELSE 0)

C18_UserIsForwarded ==
    /\ JustApplied("User") => Snapshot = prev
    /\ (pc = "returned" /\ ~panicked) =>
        \A k \in 1..Len(delayed_responses) :
            delayed_responses[k].type = "User" =>
                /\ k <= Len(node_responses)
                /\ node_responses[k] = delayed_responses[k]

\* A frame has returned in which a node's User response was applied between
\* a prepended DeleteNodeUi and another response, with a node selected.
C18_Witness ==
    /\ pc = "returned" /\ ~panicked
    /\ Len(delayed_responses) >= 3
    /\ delayed_responses[1].type = "DeleteNodeUi"
    /\ delayed_responses[2].type = "User"
    /\ delayed_responses[2].node # 0
    /\ node_responses[2] = delayed_responses[2]
    /\ Len(node_responses) > Len(delayed_responses)

\* C19: a DeleteNodeFull in the list the loop runs over, and a RaiseNode for
\* an id that is not in node_order, each make the frame panic: the step taken
\* on them sets panicked, nothing is returned and nothing runs afterwards.  In
\* a frame without prepended responses the loop meets neither.
C19_MisuseIsFatal ==
    /\ [][(InLoop /\ response.type = "DeleteNodeFull")
            => (panicked' /\ pc' = "apply" /\ node_responses' = <<>>)]_vars
    /\ [][(InLoop /\ response.type = "RaiseNode" /\ response.node \notin Range(node_order))
            => (panicked' /\ pc' = "apply" /\ node_responses' = <<>>)]_vars
    /\ [][~panicked]_vars
    /\ [](panicked => pc # "returned")
    /\ []((InLoop /\ frame.prepend = <<>>) =>
            /\ response.type # "DeleteNodeFull"
            /\ response.type = "RaiseNode" => response.node \in Range(node_order))

\* The loop has panicked on a prepended RaiseNode for a node that an earlier
\* frame deleted.
C19_Witness ==
    /\ panicked /\ pc = "apply"
    /\ idx < Len(delayed_responses)
    /\ delayed_responses[idx + 1].type = "RaiseNode"
    /\ delayed_responses[idx + 1].node \notin Range(node_order)
    /\ delayed_responses[idx + 1].node \in 1..next_node
    /\ idx < Len(frame.prepend)

\* C20: the graph gains a node only in the draw pass of a frame whose node
\* finder was open and returned a kind.  That frame adds exactly one node,
\* with the input and output ports of the kind's template, places it at the
\* cursor position less the pan, orients it LeftToRight, appends it to
\* node_order, pushes exactly one CreatedNode for it and closes the finder.
NodeCreated == next_node # prev.graph.next_node
C20_FinderCreatesOneNode ==
    /\ [][(next_node' # next_node \/ ~(DOMAIN nodes' \subseteq DOMAIN nodes)
           \/ Len(node_order') > Len(node_order))
            => (pc = "idle" /\ IsSome(node_finder) /\ frame'.confirm # "")]_vars
    /\ [](Drawn =>
            /\ NodeCreated <=> (IsSome(prev.node_finder) /\ frame.confirm # "")
            /\ ~NodeCreated =>
                /\ Graph = prev.graph
                /\ node_order = prev.node_order
                /\ node_finder = prev.node_finder
                /\ \A i \in 1..Len(delayed_responses) :
                      delayed_responses[i].type = "CreatedNode" => i <= Len(frame.prepend)
            /\ NodeCreated =>
                LET id == next_node
                    tpl == Template(frame.confirm)
                IN /\ id \notin DOMAIN prev.graph.nodes
                   /\ DOMAIN nodes = DOMAIN prev.graph.nodes \cup {id}
                   /\ \A n \in DOMAIN prev.graph.nodes : nodes[n] = prev.graph.nodes[n]
                   /\ connections = prev.graph.connections
                   /\ Len(nodes[id].inputs) = Len(tpl.inputs)
                   /\ Len(nodes[id].outputs) = Len(tpl.outputs)
                   /\ DOMAIN inputs = DOMAIN prev.graph.inputs \cup Range(nodes[id].inputs)
                   /\ DOMAIN outputs = DOMAIN prev.graph.outputs \cup Range(nodes[id].outputs)
                   /\ \A k \in 1..Len(tpl.inputs) :
                         /\ nodes[id].inputs[k] \notin DOMAIN prev.graph.inputs
                         /\ inputs[nodes[id].inputs[k]].node = id
                         /\ inputs[nodes[id].inputs[k]].typ = tpl.inputs[k].typ
                   /\ \A k \in 1..Len(tpl.outputs) :
                         /\ nodes[id].outputs[k] \notin DOMAIN prev.graph.outputs
                         /\ outputs[nodes[id].outputs[k]].node = id
                         /\ outputs[nodes[id].outputs[k]].typ = tpl.outputs[k]
                   /\ node_positions[id] = frame.cursor_pos - prev.pan
                   /\ node_orientations[id] = "LeftToRight"
                   /\ node_order = Append(prev.node_order, id)
                   /\ {i \in (Len(frame.prepend) + 1)..Len(delayed_responses) :
                         delayed_responses[i].type = "CreatedNode"}
                        = {Len(delayed_responses)}
                   /\ delayed_responses[Len(delayed_responses)] = CreatedNode(id)
                   /\ node_finder = None)

\* The draw pass has just created a Typed node beside an older node while the
\* view was panned.
C20_Witness ==
    /\ Drawn /\ NodeCreated
    /\ frame.confirm = "Typed"
    /\ prev.pan # 0
    /\ prev.node_order # <<>>
    /\ IsSome(prev.node_finder)

\* C21: in every frame, from the draw pass to the returned GraphResponse,
\* cursor_in_finder implies cursor_in_editor, also when the cursor is outside
\* the editor rectangle; cursor_in_finder is false in a frame that began with
\* no node finder open; and neither flag changes between the draw pass and
\* the return.
C21_FinderIsInsideEditor ==
    /\ [](pc \in {"apply", "returned"} => (cursor_in_finder => cursor_in_editor))
    /\ []((Drawn /\ ~IsSome(prev.node_finder)) =>
            (~cursor_in_finder /\ cursor_in_editor = frame.in_editor_rect))
    /\ []((Drawn /\ IsSome(prev.node_finder)) =>
            (cursor_in_finder = frame.in_finder_rect))
    /\ [][pc = "apply" =>
            (cursor_in_finder' = cursor_in_finder /\ cursor_in_editor' = cursor_in_editor)]_vars

\* A frame has returned in which the cursor was over the node finder and
\* outside the editor rectangle.
C21_Witness ==
    /\ pc = "returned" /\ ~panicked
    /\ cursor_in_finder /\ cursor_in_editor
    /\ ~frame.in_editor_rect

\* C22: the node UIs push no DeleteNodeUi(n) in a frame in which n's payload
\* answers can_delete with false; and, the caller prepending nothing, a node
\* whose payload always refuses stays in the graph and in node_order.
C22_VetoedNodeIsNotDeleted ==
    /\ [](Drawn =>
            \A n \in Range(prev.node_order) :
                ~can_delete(prev.graph, n, frame) =>
                    \A k \in 1..Len(UiResponses) : UiResponses[k] # DeleteNodeUi(n))
    /\ [](\A n \in DOMAIN nodes :
            nodes[n].user_data = "Pinned" => n \in Range(node_order))
    /\ [][\A n \in DOMAIN nodes :
            nodes[n].user_data = "Pinned" => (n \in DOMAIN nodes' /\ nodes'[n] = nodes[n])]_vars

\* The close button of a Pinned node has been clicked, in an editor that has
\* already deleted another node.
C22_Witness ==
    /\ Drawn
    /\ frame.close_click \in DOMAIN nodes
    /\ nodes[frame.close_click].user_data = "Pinned"
    /\ Cardinality(DOMAIN nodes) < next_node
    /\ delayed_responses = <<>>

\* C23: a SelectNode(n) among the node responses of a frame comes from a
\* primary click on n's window in a pass of n that pushed nothing else (no
\* User, no port response, no DeleteNodeUi, no MoveNode), and is followed at
\* once by RaiseNode(n); every MoveNode for n among them is followed at once
\* by RaiseNode(n).
C23_SelectOnlyOnPlainClick ==
    Drawn =>
        \A k \in 1..Len(UiResponses) :
            /\ UiResponses[k].type = "SelectNode" =>
                LET n == UiResponses[k].node
                IN /\ frame.window_click = n
                   /\ k < Len(UiResponses)
                   /\ UiResponses[k + 1] = RaiseNode(n)
                   /\ \A j \in 1..Len(UiResponses) :
                        (UiResponses[j].type # "CreatedNode"
                         /\ EmitterOf(UiResponses[j]) = n) => j \in {k, k + 1}
                   /\ n \notin frame.user
                   /\ frame.window_drag # n
                   /\ (frame.close_click # n \/ ~can_delete(prev.graph, n, frame))
                   /\ (frame.drag_started = NoPort
                       \/ PortNode(prev.graph, frame.drag_started) # n)
            /\ UiResponses[k].type = "MoveNode" =>
                /\ frame.window_drag = UiResponses[k].node
                /\ k < Len(UiResponses)
                /\ UiResponses[k + 1] = RaiseNode(UiResponses[k].node)

\* One node was clicked and nothing else, another was dragged while its hook
\* pushed a User response: the UI has pushed SelectNode for the first and
\* MoveNode for the second.
C23_Witness ==
    /\ Drawn
    /\ frame.window_click # 0
    /\ frame.window_drag \notin {0, frame.window_click}
    /\ frame.window_drag \in frame.user
    /\ \E k \in 1..Len(UiResponses) : UiResponses[k] = SelectNode(frame.window_click)
    /\ \E k \in 1..Len(UiResponses) : UiResponses[k].type = "MoveNode"

\* The ports of node n that may take part in a connection: every output, and
\* every input whose kind is ConnectionOnly or ConnectionOrConstant.
EligiblePorts(g, n) ==
    {p \in Range(g.nodes[n].inputs) : g.inputs[p].kind # "ConstantOnly"}
    \cup Range(g.nodes[n].outputs)

\* C24 (as claimed): in every frame every eligible port of every drawn node
\* has its location recorded and answers a drag started on it, whether or not
\* the inputs of the node are shown inline.
C24_EveryEligiblePortIsDrawn ==
    Drawn =>
        \A n \in Range(prev.node_order) :
            \A p \in EligiblePorts(prev.graph, n) :
                /\ p \in PortLocations(prev.graph, prev.node_order)
                /\ (frame.drag_started = p /\ ~IsSome(prev.connection_in_progress))
                    => \E k \in 1..Len(UiResponses) :
                          UiResponses[k] \in
                            {ConnectEventStarted(n, p)}
                            \cup {DisconnectEvent(p, o) : o \in DOMAIN prev.graph.outputs}

\* C25: the node UIs push no ConnectEventStarted, DisconnectEvent or
\* ConnectEventEnded that names a ConstantOnly input, and no ConstantOnly
\* input has a connection.
C25_ConstantOnlyInputStaysUnconnected ==
    /\ Drawn =>
        \A k \in 1..Len(UiResponses) :
            \A p \in DOMAIN prev.graph.inputs :
                prev.graph.inputs[p].kind = "ConstantOnly" =>
                    /\ UiResponses[k].input # p
                    /\ UiResponses[k].port # p
    /\ \A c \in connections :
            c[1] \in DOMAIN inputs => inputs[c[1]].kind # "ConstantOnly"

\* A drag from another node's output was released with the pointer over the
\* ConstantOnly input and the ConnectionOnly input of a node: the UI has
\* pushed the connection to the second and nothing for the first.
C25_Witness ==
    /\ Drawn
    /\ IsSome(prev.connection_in_progress)
    /\ \E p \in frame.close_enough :
            /\ IsInput(p)
            /\ prev.graph.inputs[p].kind = "ConstantOnly"
            /\ <<"Input", p[2], 2>> \in frame.close_enough
            /\ delayed_responses =
                <<ConnectEventEnded(<<"Input", p[2], 2>>, prev.connection_in_progress[2])>>

C27_BoxSelectionEndsWithRelease ==
    /\ [][(IsSome(ongoing_box_selection') /\ ongoing_box_selection' # ongoing_box_selection)
            => /\ pc = "apply" /\ pc' = "returned"
               /\ frame.bg_drag_started /\ frame.primary_down
               /\ ~frame.primary_released
               /\ ongoing_box_selection' = Some(frame.cursor_pos)]_vars
    /\ []((pc = "returned" /\ ~panicked
           /\ (frame.primary_released \/ frame.bg_drag_stopped))
            => ongoing_box_selection = None)

\* A box selection that had picked a node was going on, and a frame in which
\* the primary button was released without the background reporting the end
\* of a drag has ended it.
C27_Witness ==
    /\ pc = "returned" /\ ~panicked
    /\ frame.primary_released /\ ~frame.bg_drag_stopped
    /\ IsSome(prev.ongoing_box_selection)
    /\ ongoing_box_selection = None
    /\ selected_nodes # <<>>

\* C28: DeleteNodeUi(n) takes n out of node_order, node_positions and
\* selected_nodes; the other nodes keep their positions, the other entries of
\* node_order and of selected_nodes stay, in the same relative order, and the
\* connections that touch no port of n stay.
C28_DeleteRemovesOnlyTheNode ==
    JustApplied("DeleteNodeUi") =>
        LET n == applied.node
            ports == Range(prev.graph.nodes[n].inputs) \cup Range(prev.graph.nodes[n].outputs)
        IN /\ n \notin Range(node_order)
           /\ n \notin DOMAIN node_positions
           /\ n \notin Range(selected_nodes)
           /\ DOMAIN node_positions = DOMAIN prev.node_positions \ {n}
           /\ \A m \in DOMAIN node_positions : node_positions[m] = prev.node_positions[m]
           /\ Range(node_order) = Range(prev.node_order) \ {n}
           /\ Len(node_order) = Len(prev.node_order) - 1
           /\ \A a \in Range(node_order) : \A b \in Range(node_order) :
                PositionOf(node_order, a) < PositionOf(node_order, b)
                    <=> PositionOf(prev.node_order, a) < PositionOf(prev.node_order, b)
           /\ Range(selected_nodes) = Range(prev.selected_nodes) \ {n}
           /\ Len(selected_nodes) =
                Len(prev.selected_nodes)
                - Cardinality({k \in 1..Len(prev.selected_nodes) : prev.selected_nodes[k] = n})
           /\ \A a \in Range(selected_nodes) : \A b \in Range(selected_nodes) :
                PositionOf(selected_nodes, a) < PositionOf(selected_nodes, b)
                    <=> PositionOf(prev.selected_nodes, a) < PositionOf(prev.selected_nodes, b)
           /\ connections \subseteq prev.graph.connections
           /\ \A c \in prev.graph.connections :
                (c[1] \notin ports /\ c[2] \notin ports) => c \in connections

\* The middle one of three selected nodes has been deleted; it was linked to
\* one of the others, and the other two are linked to each other.
C28_Witness ==
    /\ JustApplied("DeleteNodeUi")
    /\ Len(prev.node_order) = 3
    /\ prev.node_order[2] = applied.node
    /\ Len(prev.selected_nodes) = 3
    /\ prev.selected_nodes[2] = applied.node
    /\ connections # {}
    /\ connections # prev.graph.connections
    /\ \E a \in DOMAIN node_positions : \E b \in DOMAIN node_positions :
            node_positions[a] # node_positions[b]

\* C29 (as claimed): in every state every connection joins a live input of a
\* live node to a live output of a live node, also after a ConnectEventEnded
\* of the node UIs is applied behind a DeleteNodeUi for the owner of one of
\* its ports.
C29_ConnectionsResolve ==
    ~panicked =>
        \A c \in connections :
            /\ c[1] \in DOMAIN inputs
            /\ c[2] \in DOMAIN outputs
            /\ inputs[c[1]].node \in DOMAIN nodes
            /\ outputs[c[2]].node \in DOMAIN nodes

\* C30 (as claimed): at the start of every frame the port of
\* connection_in_progress is a live port and its node is the live node that
\* owns the port, also after the origin node of the drag was deleted while
\* the drag was going on.
C30_DragOriginResolves ==
    (pc = "idle" /\ ~panicked /\ IsSome(connection_in_progress)) =>
        /\ PortIsLive(Graph, connection_in_progress[2])
        /\ connection_in_progress[1] \in DOMAIN nodes
        /\ PortNode(Graph, connection_in_progress[2]) = connection_in_progress[1]

\* C31 (as claimed): at the end of every frame selected_nodes holds live node
\* ids only, each once, also when a DeleteNodeUi was applied while a box
\* selection was going on.
C31_SelectionIsLive ==
    (pc = "returned" /\ ~panicked) =>
        /\ Range(selected_nodes) \subseteq DOMAIN nodes
        /\ Cardinality(Range(selected_nodes)) = Len(selected_nodes)

\* C32 (as claimed): a frame whose prepended list is one DeleteNodeUi for a
\* live node does not panic, whatever the UI of that node pushed in the same
\* frame.
C32_DeleteOfUsedNodeCompletes ==
    ~(/\ panicked
      /\ pc = "apply"
      /\ Len(frame.prepend) = 1
      /\ frame.prepend[1].type = "DeleteNodeUi"
      /\ idx >= 1)

\* C33: a frame that starts with connection_in_progress set draws no
\* ConnectEventStarted and no DisconnectEvent, a frame that starts with it
\* unset draws no ConnectEventEnded, and a ConnectEventEnded is drawn only in
\* a frame with a button release; the UI never replaces the source of a drag
\* by another one, and a connection is added only in a frame that began
\* with a drag and saw a release.
PortEvents(type) == {k \in 1..Len(UiResponses) : UiResponses[k].type = type}

C33_DragGatesPortEvents ==
    /\ [](Drawn =>
            /\ IsSome(prev.connection_in_progress) =>
                  PortEvents("ConnectEventStarted") \cup PortEvents("DisconnectEvent") = {}
            /\ ~IsSome(prev.connection_in_progress) => PortEvents("ConnectEventEnded") = {}
            /\ PortEvents("ConnectEventEnded") # {} => frame.any_released)
    /\ [][/\ (IsSome(connection_in_progress) /\ IsSome(connection_in_progress'))
                => connection_in_progress' = connection_in_progress
          /\ ~(connections' \subseteq connections)
                => /\ frame.any_released
                   /\ IsSome(connection_in_progress)
                   /\ PortEvents("ConnectEventStarted") \cup PortEvents("DisconnectEvent") = {}]_vars

\* A frame of a connection drag in which a port saw a drag gesture and a
\* release next to a port ended the drag with a connection.
C33_Witness ==
    /\ Drawn
    /\ frame.drag_started # NoPort
    /\ IsSome(prev.connection_in_progress)
    /\ frame.close_enough # {}
    /\ frame.any_released
    /\ PortEvents("ConnectEventEnded") # {}

ReleaseNear(near) ==
    draw_nodes(Graph, node_order,
               [NoInput EXCEPT !.close_enough = near, !.any_released = TRUE,
                               !.primary_released = TRUE],
               connection_in_progress)

\* Inputs other than i that accept a drag from the output o.
OtherTakers(i, o) ==
    {j \in PortLocations(Graph, node_order) \ {i} :
        /\ IsInput(j)
        /\ any_param_type(Graph, j) = any_param_type(Graph, o)
        /\ PortNode(Graph, j) # PortNode(Graph, o)}

Unplugged ==
    /\ JustApplied("DisconnectEvent")
    /\ <<applied.input, applied.output>> \in prev.graph.connections
    /\ PortNode(Graph, applied.input) # PortNode(Graph, applied.output)

QuietStep == IF pc = "idle" THEN ~frame'.any_released ELSE ~frame.any_released

\* The loop applied to the responses of a release frame, all of them
\* ConnectEventEnded.
RECURSIVE AfterRelease(_, _)
AfterRelease(g, rs) ==
    IF rs = <<>> THEN g
    ELSE AfterRelease(ConnectEventEndedGraph(g, Head(rs)), Tail(rs))

\* C34 (as claimed): after the UI unplugged input i of node B from output o
\* of another node A, a release with i within the connect distance puts back
\* exactly the connection set from before the unplug.
C34_ReplugRestoresTheLinks ==
    Unplugged =>
        \A near \in SUBSET PortLocations(Graph, node_order) :
            applied.input \in near
            => AfterRelease(Graph, ReleaseNear(near)).connections = prev.graph.connections

\* C34 (what holds): when the UI unplugs input i of node B from output
\* o of another node A, the link (i, o) is gone and the drag goes on from
\* (A, o); nothing changes the graph or the drag until a button is released;
\* a release with i within the connect distance, and no other input that
\* would accept the drag within it, pushes ConnectEventEnded{i, o} and
\* nothing else, which puts back exactly the graph from before the unplug;
\* the frame of the release ends with no drag in progress.
C34_UnplugReplugRestores ==
    /\ [](Unplugged =>
            /\ connections = prev.graph.connections \ {<<applied.input, applied.output>>}
            /\ connection_in_progress =
                    <<PortNode(Graph, applied.output), applied.output>>
            /\ \A near \in SUBSET PortLocations(Graph, node_order) :
                  (applied.input \in near /\ near \cap OtherTakers(applied.input, applied.output) = {})
                  => /\ ReleaseNear(near) = <<ConnectEventEnded(applied.input, applied.output)>>
                     /\ ConnectEventEndedGraph(Graph, ReleaseNear(near)[1]) = prev.graph)
    /\ [][(IsSome(connection_in_progress) /\ QuietStep)
            => /\ Graph' = Graph
               /\ node_order' = node_order
               /\ connection_in_progress' = connection_in_progress]_vars
    /\ []((pc = "returned" /\ ~panicked /\ frame.any_released)
            => ~IsSome(connection_in_progress))

\* The UI has unplugged an input fed by another node, no button was released
\* in that frame, and a third node offers ports next to which the release
\* could land as well.
C34_Witness ==
    /\ Unplugged
    /\ ~frame.any_released
    /\ Len(node_order) = 3

\* C35 (as claimed): a selection of two nodes survives a press of the primary
\* button on one of them, so that a drag of that node moves both.
PressedOnMember ==
    /\ pc = "returned" /\ ~panicked
    /\ frame.any_pressed
    /\ Len(prev.selected_nodes) = 2
    /\ frame.window_drag \in Range(prev.selected_nodes)

C35_SelectionSurvivesPress ==
    PressedOnMember =>
        /\ selected_nodes = prev.selected_nodes
        /\ Moved(frame.window_drag) = Range(prev.selected_nodes)

\* C36 (as claimed): the frame of a release during a connection drag pushes
\* at most one ConnectEventEnded and adds at most one connection, however
\* many ports are within the connect distance.
C36_OneConnectionPerRelease ==
    (Drawn /\ frame.any_released /\ IsSome(prev.connection_in_progress)) =>
        /\ Cardinality(PortEvents("ConnectEventEnded")) <= 1
        /\ Cardinality(AfterRelease(prev.graph, UiResponses).connections
                       \ prev.graph.connections) <= 1

\* C37 (as claimed): in a drawn frame with a drag in progress, the wire snaps
\* to a port p exactly when a release in that frame would make draw_port push
\* ConnectEventEnded joining the source with p; the snap target is never a
\* port of the drag's origin node.
SnapTarget ==
    DragTarget(Graph, connection_in_progress[2],
               PortLocations(prev.graph, prev.node_order), frame.close_enough)

ReleaseJoins(p) ==
    draw_port(prev.graph, PortNode(prev.graph, p), p,
              [frame EXCEPT !.any_released = TRUE, !.drag_started = NoPort],
              prev.connection_in_progress, FALSE) # <<>>

DragDrawn ==
    /\ Drawn
    /\ IsSome(prev.connection_in_progress)
    /\ connection_in_progress = prev.connection_in_progress

C37_SnapAgreesWithCommit ==
    DragDrawn =>
        /\ \A p \in PortLocations(prev.graph, prev.node_order) :
              (SnapTarget = Some(p)) <=> ReleaseJoins(p)
        /\ IsSome(SnapTarget) =>
              PortNode(prev.graph, Unwrap(SnapTarget)) # connection_in_progress[1]

\* C37 (what holds): whenever a release would join the source with some
\* port, the wire snaps to a port; and the port the wire snaps to either
\* would be joined by a release or belongs to the drag's origin node.
C37_SnapCoversCommit ==
    DragDrawn =>
        /\ (\E p \in PortLocations(prev.graph, prev.node_order) : ReleaseJoins(p))
              => IsSome(SnapTarget)
        /\ IsSome(SnapTarget) =>
              \/ ReleaseJoins(Unwrap(SnapTarget))
              \/ PortNode(prev.graph, Unwrap(SnapTarget)) = connection_in_progress[1]

\* The wire of a drag snaps to a port of the drag's origin node.
C37_Witness ==
    /\ DragDrawn
    /\ IsSome(SnapTarget)
    /\ PortNode(prev.graph, Unwrap(SnapTarget)) = connection_in_progress[1]

====
